---- MODULE Spec2Model ----
(***************************************************************************)
(* Model of the monday-graphql-api client: the file-upload request         *)
(* middleware (packages/api/lib/api-client/middleware/file-upload.ts) and  *)
(* the ApiClient that installs it (packages/api/lib/api-client/            *)
(* api-client.ts).                                                         *)
(*                                                                         *)
(* JavaScript values are modelled as follows.                              *)
(*  - A node of a variables tree is a record [k, v, c]: k is the kind      *)
(*    ("undefined", "null", "scalar", "file", "arr", "obj"), v the string  *)
(*    of a scalar or the identity of a File/Blob, c the children as a      *)
(*    sequence of [key, node] in INSERTION order (key is "" in an array).  *)
(*  - Strings are TLA+ strings; template literals and JSON.stringify       *)
(*    build real strings with \o.                                          *)
(*  - A header name is the sequence of its characters, so that             *)
(*    toLowerCase is computed character by character.                      *)
(*  - A string body is represented by the JSON document its text spells    *)
(*    (or by "malformed" when the text is no JSON): JSON.parse returns     *)
(*    that document or throws.                                             *)
(***************************************************************************)
EXTENDS Integers, Sequences, FiniteSets, TLC

VARIABLES
    pc,          \* position of the modelled call: "idle", "checked", "extracted",
                 \* "sent" (transport call in flight), "settled", and for the
                 \* constructor "new", "constructed", "threw"
    config,      \* ApiClient configuration: [headers, requestMiddleware]
    call,        \* the caller's arguments of the last request()/rawRequest()
    incoming,    \* the request the transport hands to the request middleware
    processed,   \* the request after the chained (caller-supplied) middleware
    outgoing,    \* what the upload middleware returned: [threw, request]
    tree,        \* argument of the last direct hasFiles/extractFiles application
    result,      \* its result: [has, cleanedVariables, files]
    events,      \* the calls the operation has made so far, in order
    run,         \* the call's options (for the constructor, its apiVersion),
                 \* timer, abort signal and outcome
    heap,        \* the objects the middleware was given and those it built,
                 \* by name, as they are after the call
    setup,       \* the setup tool: its environment, cache, commands and files
    flights      \* the operations running at the same time, each with its own
                 \* state (empty where one operation runs at a time)

vars ==
    <<pc, config, call, incoming, processed, outgoing, tree, result, events, run,
      heap, setup, flights>>

-----------------------------------------------------------------------------
(* Bounds of the model *)

\* number of nodes below the root object of a variables tree
MaxNodes == 3

-----------------------------------------------------------------------------
(* JavaScript values *)

Undefined == [k |-> "undefined", v |-> "", c |-> <<>>]
Null      == [k |-> "null", v |-> "", c |-> <<>>]
Str(s)    == [k |-> "scalar", v |-> s, c |-> <<>>]
Blob(id)  == [k |-> "file", v |-> id, c |-> <<>>]
Arr(es)   == [k |-> "arr", v |-> "", c |-> es]
Obj(es)   == [k |-> "obj", v |-> "", c |-> es]

Item(n)     == [key |-> "", node |-> n]
Entry(k, n) == [key |-> k, node |-> n]

\* the leaves the model draws trees from: null, a string and two distinct Blobs
\* (an empty array is drawn beside them, and the empty object as a root)
Leaves == {Null, Str("s"), Blob("F1"), Blob("F2")}

\* object keys the model draws from: a plain key with an integer-index key,
\* or with a key that contains the path separator
PlainKeys  == {"a", "0"}
DottedKeys == {"a", "a.0"}

\* injective key sequences of length m
KeySeqs(m, keys) ==
    {ks \in [1..m -> keys] : \A i, j \in 1..m : ks[i] = ks[j] => i = j}

RECURSIVE TreesOfSize(_, _), ForestsOfSize(_, _)
\* sequences of nodes whose sizes add up to n
ForestsOfSize(n, keys) ==
    IF n = 0 THEN {<<>>}
    ELSE UNION {LET ts == TreesOfSize(k, keys)
                    fs == ForestsOfSize(n - k, keys)
                IN  {<<t>> \o f : t \in ts, f \in fs} : k \in 1..n}
\* nodes made of exactly n nodes
TreesOfSize(n, keys) ==
    IF n = 1 THEN Leaves \cup {Arr(<<>>)}
    ELSE LET fs  == ForestsOfSize(n - 1, keys)
             kss == UNION {KeySeqs(m, keys) : m \in 1..Cardinality(keys)}
         IN  {Arr([i \in DOMAIN f |-> Item(f[i])]) : f \in fs}
             \cup {Obj([i \in DOMAIN p[1] |-> Entry(p[2][i], p[1][i])]) :
                     p \in {q \in fs \X kss : Len(q[1]) = Len(q[2])}}

\* the variables objects a caller may pass: a root object over at most
\* MaxNodes further nodes
VariablesOver(keys) ==
    {Obj(<<>>)} \cup
    {t \in UNION {TreesOfSize(n, keys) : n \in 2..(MaxNodes + 1)} : t.k = "obj"}

-----------------------------------------------------------------------------
(* JavaScript built-ins used by the code *)

\* the decimal strings that are array-index property names
MaxIndex == 9
IsIndexKey(key) == \E i \in 0..MaxIndex : ToString(i) = key
IndexOfKey(key) == CHOOSE i \in 0..MaxIndex : ToString(i) = key

\* a sequence without its i-th element
RemoveAt(s, i) == [j \in 1..(Len(s) - 1) |-> IF j < i THEN s[j] ELSE s[j + 1]]

RECURSIVE SortIndexEntries(_)
\* entries with integer-index keys, ascending by numeric value
SortIndexEntries(es) ==
    IF es = <<>> THEN <<>>
    ELSE LET m == CHOOSE i \in DOMAIN es :
                    \A j \in DOMAIN es : IndexOfKey(es[i].key) <= IndexOfKey(es[j].key)
         IN  <<es[m]>> \o SortIndexEntries(RemoveAt(es, m))

\* OrdinaryOwnPropertyKeys: integer-index keys in ascending numeric order,
\* then the other string keys in insertion order.  Object.entries and
\* Object.values and JSON.stringify all enumerate an object in this order.
ObjectEntries(value) ==
    SortIndexEntries(SelectSeq(value.c, LAMBDA e : IsIndexKey(e.key)))
        \o SelectSeq(value.c, LAMBDA e : ~IsIndexKey(e.key))

ArrayIsArray(value) == value.k = "arr"
\* typeof value === 'object' (true of null, arrays, plain objects and Blobs)
TypeofObject(value) == value.k \in {"null", "arr", "obj", "file"}

RECURSIVE JSONstringify(_), JoinItems(_, _), JoinEntries(_, _)
\* JSON.stringify of a value: a Blob has no enumerable own property and is
\* written "{}"
JSONstringify(value) ==
    CASE value.k = "null"   -> "null"
      [] value.k = "scalar" -> "\"" \o value.v \o "\""
      [] value.k = "file"   -> "{}"
      [] value.k = "arr"    -> "[" \o JoinItems(value.c, 1) \o "]"
      [] value.k = "obj"    -> "{" \o JoinEntries(ObjectEntries(value), 1) \o "}"
JoinItems(es, i) ==
    IF i > Len(es) THEN ""
    ELSE (IF i > 1 THEN "," ELSE "") \o JSONstringify(es[i].node) \o JoinItems(es, i + 1)
JoinEntries(es, i) ==
    IF i > Len(es) THEN ""
    ELSE (IF i > 1 THEN "," ELSE "") \o "\"" \o es[i].key \o "\":"
             \o JSONstringify(es[i].node) \o JoinEntries(es, i + 1)

-----------------------------------------------------------------------------
(* middleware/file-upload.ts: detection and extraction *)

\* isFile: value instanceof File || value instanceof Blob
isFile(value) == value.k = "file"

RECURSIVE check(_)
\* check without its array branch
checkNoArrays(value) ==
    IF isFile(value) THEN TRUE
    ELSE IF value # Null /\ TypeofObject(value) /\ ~ArrayIsArray(value)
         THEN LET es == ObjectEntries(value) IN \E i \in DOMAIN es : check(es[i].node)
    ELSE FALSE

\* hasFiles.check
check(value) ==
    IF isFile(value) THEN TRUE
    ELSE IF ArrayIsArray(value) THEN \E i \in DOMAIN value.c : check(value.c[i].node)
    ELSE IF value # Null /\ TypeofObject(value)
         THEN LET es == ObjectEntries(value) IN \E i \in DOMAIN es : check(es[i].node)
    ELSE FALSE

\* hasFiles that looks at the values of the variables and no deeper
hasFilesShallow(variables) ==
    IF variables = Undefined THEN FALSE
    ELSE \E i \in DOMAIN variables.c : isFile(variables.c[i].node)

hasFiles(variables) ==
    IF variables = Undefined THEN FALSE ELSE check(variables)

FileEntry(path, file) == [path |-> path, file |-> file]

RECURSIVE processValue(_, _), processItems(_, _, _), processEntries(_, _, _)
\* processValue without its array branch: an array is returned as it is
processValueNoArrays(value, currentPath) ==
    IF isFile(value)
    THEN [value |-> Null, files |-> <<FileEntry(currentPath, value)>>]
    ELSE IF value = Null \/ ~TypeofObject(value) \/ ArrayIsArray(value)
    THEN [value |-> value, files |-> <<>>]
    ELSE LET r == processEntries(ObjectEntries(value), currentPath, 1)
         IN  [value |-> Obj(r.entries), files |-> r.files]

\* extractFiles.processValue: the cleaned value and the entries pushed onto
\* `files` while it was computed, in push order
processValue(value, currentPath) ==
    IF isFile(value)
    THEN [value |-> Null, files |-> <<FileEntry(currentPath, value)>>]
    ELSE IF ArrayIsArray(value)
    THEN LET r == processItems(value.c, currentPath, 1)
         IN  [value |-> Arr(r.entries), files |-> r.files]
    ELSE IF value = Null \/ ~TypeofObject(value)
    THEN [value |-> value, files |-> <<>>]
    ELSE LET r == processEntries(ObjectEntries(value), currentPath, 1)
         IN  [value |-> Obj(r.entries), files |-> r.files]
\* the array branch with indices counted from 1
processItemsOneBased(es, currentPath, i) ==
    IF i > Len(es) THEN [entries |-> <<>>, files |-> <<>>]
    ELSE LET head == processValue(es[i].node, currentPath \o "." \o ToString(i))
             rest == processItems(es, currentPath, i + 1)
         IN  [entries |-> <<Item(head.value)>> \o rest.entries,
              files |-> head.files \o rest.files]

\* value.map((item, index) => processValue(item, `${currentPath}.${index}`))
processItems(es, currentPath, i) ==
    IF i > Len(es) THEN [entries |-> <<>>, files |-> <<>>]
    ELSE LET head == processValue(es[i].node, currentPath \o "." \o ToString(i - 1))
             rest == processItems(es, currentPath, i + 1)
         IN  [entries |-> <<Item(head.value)>> \o rest.entries,
              files |-> head.files \o rest.files]
\* the object branch collecting the files of later entries first
processEntriesReversed(es, currentPath, i) ==
    IF i > Len(es) THEN [entries |-> <<>>, files |-> <<>>]
    ELSE LET head == processValue(es[i].node, currentPath \o "." \o es[i].key)
             rest == processEntries(es, currentPath, i + 1)
         IN  [entries |-> <<Entry(es[i].key, head.value)>> \o rest.entries,
              files |-> rest.files \o head.files]

\* for (const [key, val] of Object.entries(value)) result[key] = processValue(...)
processEntries(es, currentPath, i) ==
    IF i > Len(es) THEN [entries |-> <<>>, files |-> <<>>]
    ELSE LET head == processValue(es[i].node, currentPath \o "." \o es[i].key)
             rest == processEntries(es, currentPath, i + 1)
         IN  [entries |-> <<Entry(es[i].key, head.value)>> \o rest.entries,
              files |-> head.files \o rest.files]

RootPath == "variables"

extractFiles(variables) ==
    LET r == processValue(variables, RootPath)
    IN  [cleanedVariables |-> r.value, files |-> r.files]

-----------------------------------------------------------------------------
(* Header names, character by character *)

HContentType   == <<"C","o","n","t","e","n","t","-","T","y","p","e">>
HContentTypeLo == <<"c","o","n","t","e","n","t","-","t","y","p","e">>
HContentTypeUp == <<"C","O","N","T","E","N","T","-","T","Y","P","E">>
HContentTypeMx == <<"c","o","n","t","e","n","t","-","T","Y","P","E">>
HAuthorization == <<"A","u","t","h","o","r","i","z","a","t","i","o","n">>
HApiVersion    == <<"A","P","I","-","V","e","r","s","i","o","n">>
HApiSdkVersion == <<"A","p","i","-","S","d","k","-","V","e","r","s","i","o","n">>

UpperCase == <<"A","B","C","D","E","F","G","H","I","J","K","L","M",
               "N","O","P","Q","R","S","T","U","V","W","X","Y","Z">>
LowerCase == <<"a","b","c","d","e","f","g","h","i","j","k","l","m",
               "n","o","p","q","r","s","t","u","v","w","x","y","z">>

Characters == {UpperCase[i] : i \in DOMAIN UpperCase}
                  \cup {LowerCase[i] : i \in DOMAIN LowerCase} \cup {"-"}
\* the lower-case mapping of a character: an upper-case letter maps to the
\* lower-case letter at the same place of the alphabet, any other to itself
LowerChar ==
    [ch \in Characters |->
        IF \E i \in DOMAIN UpperCase : UpperCase[i] = ch
        THEN LowerCase[CHOOSE i \in DOMAIN UpperCase : UpperCase[i] = ch]
        ELSE ch]
\* String.prototype.toLowerCase
toLowerCase(name) == [i \in DOMAIN name |-> LowerChar[name[i]]]

\* a headers object: a function from the names it holds to their values
NoHeaders == [n \in {} |-> ""]
\* { ...a, ...b }
Spread(a, b) ==
    [n \in DOMAIN a \cup DOMAIN b |-> IF n \in DOMAIN b THEN b[n] ELSE a[n]]
\* delete headers[key], for every key of `names`
Delete(headers, names) == [n \in DOMAIN headers \ names |-> headers[n]]

-----------------------------------------------------------------------------
(* Requests and bodies *)

NoDoc == [json |-> "none", hasQuery |-> FALSE, query |-> "", variables |-> ""]
\* the text of a JSON object, with or without a "query" member
JsonObject(hasQuery, query, variables) ==
    [json |-> "object", hasQuery |-> hasQuery, query |-> query, variables |-> variables]
JsonNull  == [json |-> "null", hasQuery |-> FALSE, query |-> "", variables |-> ""]
Malformed == [json |-> "malformed", hasQuery |-> FALSE, query |-> "", variables |-> ""]

StringBody(doc)     == [type |-> "string", doc |-> doc, parts |-> <<>>]
NonStringBody       == [type |-> "other", doc |-> NoDoc, parts |-> <<>>]
FormDataBody(parts) == [type |-> "formdata", doc |-> NoDoc, parts |-> parts]

\* one entry of a FormData
Field(name, text) == [name |-> name, kind |-> "string", value |-> text]
Part(name, file)  == [name |-> name, kind |-> "file", value |-> file.v]

NoRequest ==
    [url |-> "", method |-> "", headers |-> NoHeaders, body |-> NonStringBody,
     variables |-> Undefined]

\* a value that is a string or undefined, and its conversion by FormData.append
DefinedString(s) == [defined |-> TRUE, str |-> s]
UndefinedString  == [defined |-> FALSE, str |-> ""]
String(q)        == IF q.defined THEN q.str ELSE "undefined"

Returned(request) == [threw |-> FALSE, request |-> request]
Threw             == [threw |-> TRUE, request |-> NoRequest]

-----------------------------------------------------------------------------
(* middleware/file-upload.ts: encoding and the middleware *)

\* the `map` object: map[String(index)] = [entry.path]
MultipartMap(files) ==
    Obj([i \in DOMAIN files |->
            Entry(ToString(i - 1), Arr(<<Item(Str(files[i].path))>>))])

\* the binary parts named from 1
createMultipartFormDataOneBased(query, variables, files) ==
    <<Field("query", String(query)),
      Field("variables", JSONstringify(variables)),
      Field("map", JSONstringify(MultipartMap(files)))>>
    \o [i \in DOMAIN files |-> Part(ToString(i), files[i].file)]

\* the variables appended without JSON.stringify
createMultipartFormDataRaw(query, variables, files) ==
    <<Field("query", String(query)),
      Field("variables", "[object Object]"),
      Field("map", JSONstringify(MultipartMap(files)))>>
    \o [i \in DOMAIN files |-> Part(ToString(i - 1), files[i].file)]

createMultipartFormData(query, variables, files) ==
    <<Field("query", String(query)),
      Field("variables", JSONstringify(variables)),
      Field("map", JSONstringify(MultipartMap(files)))>>
    \o [i \in DOMAIN files |-> Part(ToString(i - 1), files[i].file)]

\* the parse whose failure is swallowed and leaves query undefined
ParseQueryIgnoresError(body) ==
    [threw |-> FALSE,
     query |-> IF body.doc.hasQuery THEN DefinedString(body.doc.query)
               ELSE UndefinedString]

\* try { const parsed = JSON.parse(body); query = parsed.query } catch { ... }
\* JSON.parse throws on text that is no JSON; reading .query of null throws
ParseQuery(body) ==
    IF body.doc.json \in {"malformed", "null"}
    THEN [threw |-> TRUE, query |-> UndefinedString]
    ELSE [threw |-> FALSE,
          query |-> IF body.doc.hasQuery THEN DefinedString(body.doc.query)
                    ELSE UndefinedString]

\* delete headers['Content-Type']; delete headers['content-type']
ContentTypeKeysExactCase(headers) ==
    {key \in DOMAIN headers : key \in {HContentType, HContentTypeLo}}

\* the keys of `headers` that the loop deletes
ContentTypeKeys(headers) ==
    {key \in DOMAIN headers : toLowerCase(key) = HContentTypeLo}

\* the copy that loses its Authorization header with the content-type keys
StripContentTypeAndAuthorization(headers) ==
    Delete(headers, ContentTypeKeys(headers) \cup {HAuthorization})

\* const headers = { ...processedRequest.headers } without its content-type keys
StripContentType(headers) == Delete(headers, ContentTypeKeys(headers))

\* the caller-supplied request middlewares the model draws from
Hooks == {"none", "setHeader", "bodyQuery", "bodyOther", "bodyMalformed",
          "bodyNull", "bodyNoQuery", "dropVariables", "addFile", "setUrl"}

HookQuery == "query { hook }"
HookUrl   == "https://proxy.example/v2"
HookToken == "hook-token"

existingMiddleware(hook, request) ==
    CASE hook = "setHeader" ->
           [request EXCEPT !.headers = Spread(@, (HContentTypeMx :> "text/plain"))]
      [] hook = "bodyOther"     -> [request EXCEPT !.body = NonStringBody]
      [] hook = "bodyMalformed" -> [request EXCEPT !.body = StringBody(Malformed)]
      [] hook = "bodyNull"      -> [request EXCEPT !.body = StringBody(JsonNull)]
      [] hook = "bodyNoQuery"   ->
           [request EXCEPT !.body = StringBody(JsonObject(FALSE, "", @.doc.variables))]
      [] hook = "bodyQuery"     ->
           [request EXCEPT !.body = StringBody(JsonObject(TRUE, HookQuery, @.doc.variables))]
      [] hook = "dropVariables" -> [request EXCEPT !.variables = Undefined]
      [] hook = "addFile"       ->
           [request EXCEPT !.variables = Obj(<<Entry("a", Blob("F2"))>>)]
      [] hook = "setUrl"        ->
           [request EXCEPT !.url = HookUrl,
                           !.headers = Spread(@, (HAuthorization :> HookToken))]

\* the request taken as it came, the chained hook left out
ProcessedRequestWithoutHook(hook, request) == request

\* const processedRequest = existingMiddleware ? await existingMiddleware(request) : request
ProcessedRequest(hook, request) ==
    IF hook # "none" THEN existingMiddleware(hook, request) ELSE request

\* the middleware without the hasFiles test
createFileUploadMiddlewareNoDetect(hook, request) ==
    LET processedRequest == ProcessedRequest(hook, request)
        variables == processedRequest.variables
        body      == processedRequest.body
    IN  IF variables = Undefined THEN Returned(processedRequest)
        ELSE IF body.type # "string" THEN Returned(processedRequest)
        ELSE LET parsed == ParseQuery(body)
             IN  IF parsed.threw THEN Returned(processedRequest)
                 ELSE LET ex       == extractFiles(variables)
                          formData == createMultipartFormData(
                                          parsed.query, ex.cleanedVariables, ex.files)
                          headers  == StripContentType(processedRequest.headers)
                      IN  Returned([processedRequest EXCEPT
                                      !.body = FormDataBody(formData),
                                      !.headers = headers])

\* the middleware returned by createFileUploadMiddleware(existingMiddleware)
createFileUploadMiddleware(hook, request) ==
    LET processedRequest == ProcessedRequest(hook, request)
        variables == processedRequest.variables
        body      == processedRequest.body
    IN  IF variables = Undefined \/ ~hasFiles(variables) THEN Returned(processedRequest)
        ELSE IF body.type # "string" THEN Returned(processedRequest)
        ELSE LET parsed == ParseQuery(body)
             IN  IF parsed.threw THEN Returned(processedRequest)
                 ELSE LET ex       == extractFiles(variables)
                          formData == createMultipartFormData(
                                          parsed.query, ex.cleanedVariables, ex.files)
                          headers  == StripContentType(processedRequest.headers)
                      IN  Returned([processedRequest EXCEPT
                                      !.body = FormDataBody(formData),
                                      !.headers = headers])

-----------------------------------------------------------------------------
(* api-client.ts: the client and its requests *)

Token         == "test-token"
ApiSdkVersion == "pkg.version"
Endpoint      == "https://api.monday.com/v2"
ApiVersions   == {"2025-01"}

\* the requestConfig.headers the model draws from: none, or two differently
\* cased content-type headers beside the client's own 'Content-Type'
ConfigHeaders ==
    {[n \in S |-> "text/plain"] : S \in {{}, {HContentTypeLo, HContentTypeUp}}}

Configs ==
    [headers : ConfigHeaders, requestMiddleware : Hooks, apiVersion : ApiVersions]

Queries == {"query { me { id } }"}

\* ApiClient.createClient: the headers of the GraphQLClient
mergedHeaders(cfg) ==
    Spread((HContentType :> "application/json")
             @@ (HAuthorization :> Token)
             @@ (HApiVersion :> cfg.apiVersion)
             @@ (HApiSdkVersion :> ApiSdkVersion),
           cfg.headers)

\* the request the GraphQLClient prepares for its request middleware: the
\* JSON text of {query, variables} as body, the caller's variables beside it
PreparedRequest(cfg, query, variables) ==
    [url |-> Endpoint, method |-> "POST", headers |-> mergedHeaders(cfg),
     body |-> StringBody(JsonObject(TRUE, query,
                 IF variables = Undefined THEN "" ELSE JSONstringify(variables))),
     variables |-> variables]

-----------------------------------------------------------------------------
(* api-client.ts: API versions, request options and their validation *)

Digits == {"0", "1", "2", "3", "4", "5", "6", "7", "8", "9"}

RECURSIVE Text(_)
\* the string that a sequence of characters spells
Text(chars) == IF chars = <<>> THEN "" ELSE Head(chars) \o Text(Tail(chars))

\* Matching a piece of a pattern at position pos of the string v: the result
\* is the position after the match, 0 when there is none.
\* \d{n}
MatchDigits(v, pos, n) ==
    IF pos = 0 THEN 0
    ELSE IF pos + n - 1 <= Len(v) /\ \A i \in pos..(pos + n - 1) : v[i] \in Digits
    THEN pos + n
    ELSE 0
\* a literal
MatchLiteral(v, pos, lit) ==
    IF pos = 0 THEN 0
    ELSE IF pos + Len(lit) - 1 <= Len(v) /\ SubSeq(v, pos, pos + Len(lit) - 1) = lit
    THEN pos + Len(lit)
    ELSE 0

\* (01|04|07|10)
Months == {<<"0", "1">>, <<"0", "4">>, <<"0", "7">>, <<"1", "0">>}

\* the pattern without its end anchor
VersionPatternUnanchored(version) ==
    LET afterYear  == MatchDigits(version, 1, 4)
        afterDash  == MatchLiteral(version, afterYear, <<"-">>)
        afterMonth == {MatchLiteral(version, afterDash, m) : m \in Months} \ {0}
    IN  afterMonth # {}

\* /^\d{4}-(01|04|07|10)$/.test(version)
VersionPattern(version) ==
    LET afterYear  == MatchDigits(version, 1, 4)
        afterDash  == MatchLiteral(version, afterYear, <<"-">>)
        afterMonth == {MatchLiteral(version, afterDash, m) : m \in Months} \ {0}
    IN  \E p \in afterMonth : p = Len(version) + 1

Dev == <<"d", "e", "v">>

isValidApiVersion(version) == version = Dev \/ VersionPattern(version)

InvalidApiVersionMessage ==
    "Invalid API version format. Expected format is 'yyyy-mm' with month as one of '01', '04', '07', or '10'."

\* the value of an option: absent (or undefined), a string, a number
Absent         == [defined |-> FALSE, chars |-> <<>>, num |-> 0]
Version(chars) == [defined |-> TRUE, chars |-> chars, num |-> 0]
Num(n)         == [defined |-> TRUE, chars |-> <<>>, num |-> n]

\* the options argument of request()/rawRequest(): undefined, or an object
UndefinedOptions ==
    [given |-> FALSE, versionOverride |-> Absent, timeout |-> Absent, timeoutMs |-> Absent]
Options(versionOverride, timeout, timeoutMs) ==
    [given |-> TRUE, versionOverride |-> versionOverride, timeout |-> timeout,
     timeoutMs |-> timeoutMs]

\* z.number().positive().max(60_000)
MaxTimeout == 60000

\* the timeout check with its upper limit excluded
TimeoutValidBelowMax(timeout) ==
    ~timeout.defined \/ (timeout.num > 0 /\ timeout.num < MaxTimeout)

\* timeout: z.number().positive().max(60_000).optional()
TimeoutValid(timeout) ==
    ~timeout.defined \/ (timeout.num > 0 /\ timeout.num <= MaxTimeout)

\* versionOverride: z.string().nonempty().optional()
\*                     .refine((version) => !version || isValidApiVersion(version))
VersionOverrideValid(versionOverride) ==
    /\ versionOverride.defined => Len(versionOverride.chars) >= 1
    /\ \/ ~versionOverride.defined
       \/ versionOverride.chars = <<>>
       \/ isValidApiVersion(versionOverride.chars)

\* requestOptionsSchema.parse(options): throws, or returns the options
\* without the keys the schema does not declare
requestOptionsSchema(options) ==
    [ok    |-> VersionOverrideValid(options.versionOverride) /\ TimeoutValid(options.timeout),
     value |-> [options EXCEPT !.timeoutMs = Absent]]

\* const validatedOptions = options ? requestOptionsSchema.parse(options) : options
ValidatedOptions(options) ==
    IF options.given THEN requestOptionsSchema(options)
    ELSE [ok |-> TRUE, value |-> options]

\* createClient that leaves the versionOverride of the options aside
createClientWithoutOverride(cfg, options) == cfg

\* createClient(options): the configuration of the client of one request
createClient(cfg, options) ==
    [cfg EXCEPT !.apiVersion =
        IF options.versionOverride.defined THEN Text(options.versionOverride.chars) ELSE @]

\* createAbortController without its test of the timeout
createAbortControllerAlways(timeout) == TRUE

\* createAbortController(timeout): whether a controller and a timer are made
createAbortController(timeout) == timeout.defined /\ timeout.num # 0

\* the calls createFileUploadMiddleware(hook) makes for a request, in order
MiddlewareCalls(hook, request) ==
    LET processedRequest == ProcessedRequest(hook, request)
        variables == processedRequest.variables
        body      == processedRequest.body
    IN  (IF hook # "none" THEN <<"existingMiddleware">> ELSE <<>>)
        \o (IF variables = Undefined THEN <<>>
            ELSE <<"hasFiles">>
                 \o (IF ~hasFiles(variables) \/ body.type # "string" THEN <<>>
                     ELSE <<"JSON.parse">>
                          \o (IF ParseQuery(body).threw THEN <<>>
                              ELSE <<"extractFiles", "createMultipartFormData",
                                     "delete headers[key]">>)))

\* executeRequest with the client created before the options are validated
executeRequestCallsClientFirst(options, valid, timer, inner) ==
    <<"new GraphQLClient">>
    \o (IF options.given THEN <<"requestOptionsSchema.parse">> ELSE <<>>)
    \o (IF ~valid THEN <<>>
        ELSE (IF timer THEN <<"new AbortController", "setTimeout">> ELSE <<>>)
             \o inner \o <<"fetch">>)

\* the calls executeRequest makes up to the transport call, in order
executeRequestCalls(options, valid, timer, inner) ==
    (IF options.given THEN <<"requestOptionsSchema.parse">> ELSE <<>>)
    \o (IF ~valid THEN <<>>
        ELSE <<"new GraphQLClient">>
             \o (IF timer THEN <<"new AbortController", "setTimeout">> ELSE <<>>)
             \o inner \o <<"fetch">>)

-----------------------------------------------------------------------------
(* middleware/file-upload.ts: the objects the middleware reads and writes *)

\* Objects are named by the expression that denotes them in the source.  The
\* middleware is given processedRequest, its headers and its variables; every
\* other object is one it builds.
NoHeap == [a \in {} |-> Null]

Store(h, object, contents) ==
    [a \in DOMAIN h \cup {object} |-> IF a = object THEN contents ELSE h[a]]

GivenObjects ==
    {"processedRequest", "processedRequest.headers", "processedRequest.variables"}

\* the object reached through processedRequest.headers taken as `headers`
HeadersObjectAliased == "processedRequest.headers"

\* const headers = { ...processedRequest.headers }: the object `headers` names
HeadersObject == "headers"

\* the fields of a request object: headers, body and variables are references
Fields(request, headers, body, variables) ==
    [url |-> request.url, method |-> request.method, headers |-> headers,
     body |-> body, variables |-> variables]

\* the objects after the middleware has run on the request: every
\* assignment and delete of lines 37-51 applied to the object it names
MiddlewareHeap(hook, request) ==
    LET processedRequest == ProcessedRequest(hook, request)
        given ==
            [a \in GivenObjects |->
                CASE a = "processedRequest" ->
                       Fields(processedRequest, "processedRequest.headers",
                              "processedRequest.body", "processedRequest.variables")
                  [] a = "processedRequest.headers"   -> processedRequest.headers
                  [] a = "processedRequest.variables" -> processedRequest.variables]
        transformed ==
            createFileUploadMiddleware(hook, request).request.body.type = "formdata"
    IN  IF ~transformed THEN Store(given, "return", "processedRequest")
        ELSE LET ex == extractFiles(given["processedRequest.variables"])
                 parsed == ParseQuery(processedRequest.body)
                 \* const { cleanedVariables, files } = extractFiles(variables)
                 h1 == Store(Store(given, "cleanedVariables", ex.cleanedVariables),
                             "files", ex.files)
                 \* const formData = createMultipartFormData(...)
                 h2 == Store(h1, "formData",
                             createMultipartFormData(parsed.query, h1["cleanedVariables"],
                                                     h1["files"]))
                 \* const headers = { ...processedRequest.headers }
                 h3 == Store(h2, HeadersObject, h2["processedRequest.headers"])
                 \* delete headers[key]
                 h4 == Store(h3, HeadersObject,
                             Delete(h3[HeadersObject], ContentTypeKeys(h3[HeadersObject])))
                 \* return { ...processedRequest, body: formData, headers }
                 h5 == Store(h4, "returned",
                             Fields(processedRequest, HeadersObject, "formData",
                                    "processedRequest.variables"))
             IN  Store(h5, "return", "returned")

-----------------------------------------------------------------------------
(* api-client.ts: the operations of the client *)

NoCall   == [api |-> "none", query |-> "", variables |-> Undefined]
NoResult == [has |-> FALSE, cleanedVariables |-> Undefined, files |-> <<>>]
NoRun    == [options |-> UndefinedOptions, timer |-> "none", signal |-> "none",
             outcome |-> "none", value |-> ""]
\* no operation runs beside the modelled one
NoFlights == <<>>
\* the setup tool before it has run anywhere
NoSetup  == [detect |-> "null", resolves |-> FALSE,
             packageJson |-> [exists |-> FALSE, scripts |-> [n \in {} |-> ""]],
             cachedPm |-> "undefined", executed |-> <<>>, files |-> {}, message |-> ""]

\* executeRequest, up to the point where it awaits the transport
executeRequest(api, query, variables, options) ==
    LET validated == ValidatedOptions(options)
        client    == createClient(config, validated.value)
        timer     == validated.ok /\ createAbortController(validated.value.timeout)
        request   == PreparedRequest(client, query, variables)
    IN  /\ pc = "idle"
        /\ call' = [api |-> api, query |-> query, variables |-> variables]
        /\ events' = executeRequestCalls(options, validated.ok, timer,
                         MiddlewareCalls(config.requestMiddleware, request))
        /\ IF ~validated.ok
           THEN /\ pc' = "settled"
                /\ run' = [NoRun EXCEPT !.options = options, !.outcome = "rejected",
                                        !.value = "ZodError"]
                /\ UNCHANGED <<incoming, processed, outgoing, heap>>
           ELSE /\ pc' = "sent"
                /\ run' = [NoRun EXCEPT !.options = options,
                                        !.timer = IF timer THEN "armed" ELSE "none",
                                        !.signal = IF timer THEN "idle" ELSE "none"]
                /\ incoming' = request
                /\ processed' = ProcessedRequest(config.requestMiddleware, request)
                /\ outgoing' = createFileUploadMiddleware(config.requestMiddleware, request)
                /\ heap' = MiddlewareHeap(config.requestMiddleware, request)
        /\ UNCHANGED <<config, tree, result, setup, flights>>

Send(api, query, variables) == executeRequest(api, query, variables, UndefinedOptions)

\* ApiClient.request(query, variables)
Request(query, variables) == Send("request", query, variables)

\* ApiClient.rawRequest(query, variables)
RawRequest(query, variables) == Send("rawRequest", query, variables)

\* ApiClient.request(query, variables, options)
RequestWith(query, variables, options) ==
    executeRequest("request", query, variables, options)

\* ApiClient.rawRequest(query, variables, options)
RawRequestWith(query, variables, options) ==
    executeRequest("rawRequest", query, variables, options)

\* hasFiles applied to a variables tree
HasFiles(variables) ==
    /\ pc = "idle"
    /\ pc' = "checked"
    /\ tree' = variables
    /\ result' = [NoResult EXCEPT !.has = hasFiles(variables)]
    /\ UNCHANGED <<config, call, incoming, processed, outgoing, events, run, heap, setup, flights>>

\* extractFiles applied to a variables tree
ExtractFiles(variables) ==
    /\ pc = "idle"
    /\ pc' = "extracted"
    /\ tree' = variables
    /\ result' = [has |-> FALSE,
                  cleanedVariables |-> extractFiles(variables).cleanedVariables,
                  files |-> extractFiles(variables).files]
    /\ UNCHANGED <<config, call, incoming, processed, outgoing, events, run, heap, setup, flights>>

\* the call has settled; the client is ready for the next one
Settle ==
    /\ pc \in {"checked", "extracted", "encoded", "sent"}
    /\ pc' = "idle"
    /\ call' = NoCall
    /\ incoming' = NoRequest
    /\ processed' = NoRequest
    /\ outgoing' = Returned(NoRequest)
    /\ tree' = Undefined
    /\ result' = NoResult
    /\ events' = <<>>
    /\ run' = NoRun
    /\ heap' = NoHeap
    /\ UNCHANGED <<config, setup, flights>>

Blank ==
    /\ call = NoCall
    /\ incoming = NoRequest
    /\ processed = NoRequest
    /\ outgoing = Returned(NoRequest)
    /\ tree = Undefined
    /\ result = NoResult
    /\ events = <<>>
    /\ run = NoRun
    /\ heap = NoHeap

\* new ApiClient(config)
Init == pc = "idle" /\ Blank /\ flights = NoFlights /\ setup = NoSetup /\ config \in Configs

RequestVariables == VariablesOver(PlainKeys) \cup {Undefined}

Next ==
    \/ pc = "idle" /\ \E q \in Queries, v \in RequestVariables : Request(q, v)
    \/ pc = "idle" /\ \E q \in Queries, v \in RequestVariables : RawRequest(q, v)
    \/ Settle

Spec == Init /\ [][Next]_vars

\* the pure functions of file-upload.ts applied to every bounded tree
DefaultConfig ==
    [headers |-> NoHeaders, requestMiddleware |-> "none", apiVersion |-> "2025-01"]

InitExtract == pc = "idle" /\ Blank /\ flights = NoFlights /\ setup = NoSetup /\ config = DefaultConfig

DottedVariables == VariablesOver(DottedKeys)

NextExtract ==
    \/ pc = "idle" /\ \E v \in RequestVariables : HasFiles(v)
    \/ pc = "idle" /\ \E v \in DottedVariables : HasFiles(v)
    \/ pc = "idle" /\ \E v \in RequestVariables \ {Undefined} : ExtractFiles(v)
    \/ pc = "idle" /\ \E v \in DottedVariables : ExtractFiles(v)
    \/ Settle

SpecExtract == InitExtract /\ [][NextExtract]_vars

-----------------------------------------------------------------------------
(* The copies of the extraction and the encoding: the private methods of
   ApiClient and the earlier standalone middleware *)

RECURSIVE ApiClient_processValue(_, _), ApiClient_processItems(_, _, _),
          ApiClient_processEntries(_, _, _)
\* ApiClient.extractFiles.processValue: a file, then an array, then
\* `value !== null && typeof value === 'object'`, and last `return value`
ApiClient_processValue(value, currentPath) ==
    IF isFile(value)
    THEN [value |-> Null, files |-> <<FileEntry(currentPath, value)>>]
    ELSE IF ArrayIsArray(value)
    THEN LET r == ApiClient_processItems(value.c, currentPath, 1)
         IN  [value |-> Arr(r.entries), files |-> r.files]
    ELSE IF value # Null /\ TypeofObject(value)
    THEN LET r == ApiClient_processEntries(ObjectEntries(value), currentPath, 1)
         IN  [value |-> Obj(r.entries), files |-> r.files]
    ELSE [value |-> value, files |-> <<>>]
\* value.map((item, index) => processValue(item, `${currentPath}.${index}`))
ApiClient_processItems(es, currentPath, i) ==
    IF i > Len(es) THEN [entries |-> <<>>, files |-> <<>>]
    ELSE LET head == ApiClient_processValue(es[i].node,
                                            currentPath \o "." \o ToString(i - 1))
             rest == ApiClient_processItems(es, currentPath, i + 1)
         IN  [entries |-> <<Item(head.value)>> \o rest.entries,
              files |-> head.files \o rest.files]
\* for (const [key, val] of Object.entries(value)) result[key] = processValue(...)
ApiClient_processEntries(es, currentPath, i) ==
    IF i > Len(es) THEN [entries |-> <<>>, files |-> <<>>]
    ELSE LET head == ApiClient_processValue(es[i].node,
                                            currentPath \o "." \o es[i].key)
             rest == ApiClient_processEntries(es, currentPath, i + 1)
         IN  [entries |-> <<Entry(es[i].key, head.value)>> \o rest.entries,
              files |-> head.files \o rest.files]

ApiClient_extractFiles(variables) ==
    LET r == ApiClient_processValue(variables, RootPath)
    IN  [cleanedVariables |-> r.value, files |-> r.files]

\* files.forEach((entry, index) => ...): the callback is called with the
\* entries in ascending order and the numeric index of each, from 0
ForEach(files) == [i \in DOMAIN files |-> [entry |-> files[i], index |-> i - 1]]

\* the `map` object the forEach of the copies builds, one property a call:
\* map[String(index)] = [entry.path]
MapOfForEach(calls) ==
    Obj([i \in DOMAIN calls |->
            Entry(ToString(calls[i].index),
                  Arr(<<Item(Str(calls[i].entry.path))>>))])

ApiClient_createMultipartFormData(query, variables, files) ==
    <<Field("query", String(query)),
      Field("variables", JSONstringify(variables)),
      Field("map", JSONstringify(MapOfForEach(ForEach(files))))>>
    \o [i \in DOMAIN ForEach(files) |->
            Part(ToString(ForEach(files)[i].index), ForEach(files)[i].entry.file)]

RECURSIVE Standalone_processValue(_, _), Standalone_processItems(_, _, _),
          Standalone_processEntries(_, _, _)
\* processValue of the standalone middleware, with the same order of tests
Standalone_processValue(value, currentPath) ==
    IF isFile(value)
    THEN [value |-> Null, files |-> <<FileEntry(currentPath, value)>>]
    ELSE IF ArrayIsArray(value)
    THEN LET r == Standalone_processItems(value.c, currentPath, 1)
         IN  [value |-> Arr(r.entries), files |-> r.files]
    ELSE IF value # Null /\ TypeofObject(value)
    THEN LET r == Standalone_processEntries(ObjectEntries(value), currentPath, 1)
         IN  [value |-> Obj(r.entries), files |-> r.files]
    ELSE [value |-> value, files |-> <<>>]
Standalone_processItems(es, currentPath, i) ==
    IF i > Len(es) THEN [entries |-> <<>>, files |-> <<>>]
    ELSE LET head == Standalone_processValue(es[i].node,
                                             currentPath \o "." \o ToString(i - 1))
             rest == Standalone_processItems(es, currentPath, i + 1)
         IN  [entries |-> <<Item(head.value)>> \o rest.entries,
              files |-> head.files \o rest.files]
Standalone_processEntries(es, currentPath, i) ==
    IF i > Len(es) THEN [entries |-> <<>>, files |-> <<>>]
    ELSE LET head == Standalone_processValue(es[i].node,
                                             currentPath \o "." \o es[i].key)
             rest == Standalone_processEntries(es, currentPath, i + 1)
         IN  [entries |-> <<Entry(es[i].key, head.value)>> \o rest.entries,
              files |-> head.files \o rest.files]

Standalone_extractFiles(variables) ==
    LET r == Standalone_processValue(variables, RootPath)
    IN  [cleanedVariables |-> r.value, files |-> r.files]

Standalone_createMultipartFormData(query, variables, files) ==
    <<Field("query", String(query)),
      Field("variables", JSONstringify(variables)),
      Field("map", JSONstringify(MapOfForEach(ForEach(files))))>>
    \o [i \in DOMAIN ForEach(files) |->
            Part(ToString(ForEach(files)[i].index), ForEach(files)[i].entry.file)]

\* what one copy makes of a query and a variables tree: the extraction, and
\* the form encoded from the query and the extraction
Encoded(extraction, form) ==
    [cleanedVariables |-> extraction.cleanedVariables,
     files |-> extraction.files,
     form |-> form]

\* the query the middleware hands to createMultipartFormData: parsed.query,
\* a string or undefined
ParsedQueries == {DefinedString(q) : q \in Queries} \cup {UndefinedString}

\* every copy applied to the same query and the same variables tree
EncodeCopies(query, variables) ==
    /\ pc = "idle"
    /\ pc' = "encoded"
    /\ tree' = variables
    /\ call' = [api |-> "createMultipartFormData", query |-> String(query),
                variables |-> variables]
    /\ result' =
         [has |-> hasFiles(variables),
          cleanedVariables |-> extractFiles(variables).cleanedVariables,
          files |-> extractFiles(variables).files,
          middleware |->
              Encoded(extractFiles(variables),
                      createMultipartFormData(query,
                          extractFiles(variables).cleanedVariables,
                          extractFiles(variables).files)),
          client |->
              Encoded(ApiClient_extractFiles(variables),
                      ApiClient_createMultipartFormData(query,
                          ApiClient_extractFiles(variables).cleanedVariables,
                          ApiClient_extractFiles(variables).files)),
          standalone |->
              Encoded(Standalone_extractFiles(variables),
                      Standalone_createMultipartFormData(query,
                          Standalone_extractFiles(variables).cleanedVariables,
                          Standalone_extractFiles(variables).files))]
    /\ UNCHANGED <<config, incoming, processed, outgoing, events, run, heap, setup, flights>>

NextCopies ==
    \/ pc = "idle" /\ \E q \in ParsedQueries, v \in RequestVariables \ {Undefined} :
                          EncodeCopies(q, v)
    \/ pc = "idle" /\ \E q \in ParsedQueries, v \in DottedVariables : EncodeCopies(q, v)
    \/ Settle

SpecCopies == InitExtract /\ [][NextCopies]_vars

-----------------------------------------------------------------------------
(* api-client.ts: construction, options, timers and the transport *)

\* a string with the character c put in before its i-th character
InsertChar(v, i, c) == SubSeq(v, 1, i - 1) \o <<c>> \o SubSeq(v, i, Len(v))
\* a string without its i-th character
DeleteChar(v, i) == SubSeq(v, 1, i - 1) \o SubSeq(v, i + 1, Len(v))

\* the strings one edit away from v: a character put in, left out or replaced
Edits(v) ==
    LET cs == {"0", "a", "-"}
    IN  {InsertChar(v, i, c) : i \in 1..(Len(v) + 1), c \in cs}
        \cup {DeleteChar(v, i) : i \in 1..Len(v)}
        \cup {[v EXCEPT ![i] = c] : i \in 1..Len(v), c \in cs}

\* the version strings the model draws from: 'dev' and the four quarters of
\* a year, everything one edit away from them, and the strings of the tests
VersionStrings ==
    LET valid == {Dev} \cup {<<"2", "0", "2", "5", "-">> \o m : m \in Months}
    IN  valid \cup UNION {Edits(v) : v \in valid}
        \cup {<<>>,
              <<"2", "0", "2", "4", "-", "0", "3">>,
              <<"i", "n", "v", "a", "l", "i", "d">>,
              <<"2", "0", "2", "4", "-", "0", "1", "-", "0", "1">>}

Timeouts == {-1000, 0, 1, 5000, MaxTimeout, MaxTimeout + 1}

\* the options the model draws from
OptionsSet ==
    {UndefinedOptions, Options(Absent, Absent, Absent)}
    \cup {Options(Version(v), Absent, Absent) : v \in VersionStrings}
    \cup {Options(Absent, Num(t), Absent) : t \in Timeouts}
    \cup {Options(Absent, Absent, Num(t)) : t \in Timeouts}
    \cup {Options(Version(v), Num(t), Absent) :
            v \in {Dev, <<"2", "0", "2", "4", "-", "0", "3">>}, t \in {0, 5000}}
    \cup {Options(Absent, Num(5000), Num(t)) : t \in {-1000, 5000}}

ClientVariables == {Undefined, Obj(<<>>), Obj(<<Entry("a", Blob("F1"))>>)}

\* what the transport may answer, and how it may fail
Responses       == {"data A", "data B"}
TransportErrors == {"ClientError"}
AbortError      == "AbortError"

NoConfig == [headers |-> NoHeaders, requestMiddleware |-> "none", apiVersion |-> ""]

\* the calls the constructor makes, in order
constructorCalls(valid) ==
    IF valid THEN <<"new GraphQLClient", "getSdk">> ELSE <<>>

\* new ApiClient({ token, apiVersion })
Construct(apiVersion) ==
    /\ pc = "new"
    /\ events' = constructorCalls(isValidApiVersion(apiVersion))
    /\ IF ~isValidApiVersion(apiVersion)
       THEN /\ pc' = "threw"
            /\ run' = [NoRun EXCEPT !.options = Options(Version(apiVersion), Absent, Absent),
                                    !.outcome = "threw",
                                    !.value = InvalidApiVersionMessage]
            /\ UNCHANGED config
       ELSE /\ pc' = "constructed"
            /\ run' = [NoRun EXCEPT !.options = Options(Version(apiVersion), Absent, Absent)]
            /\ config' = [NoConfig EXCEPT !.apiVersion = Text(apiVersion)]
    /\ call' = [NoCall EXCEPT !.api = "constructor"]
    /\ UNCHANGED <<incoming, processed, outgoing, tree, result, heap, setup, flights>>

\* the caller, left without a client, starts over
Discard ==
    /\ pc = "threw"
    /\ pc' = "new"
    /\ call' = NoCall
    /\ events' = <<>>
    /\ run' = NoRun
    /\ UNCHANGED <<config, incoming, processed, outgoing, tree, result, heap, setup, flights>>

\* the timer's callback: controller.abort()
Timeout ==
    /\ run.timer = "armed"
    /\ run' = [run EXCEPT !.timer = "fired", !.signal = "aborted"]
    /\ events' = Append(events, "controller.abort")
    /\ UNCHANGED <<pc, config, call, incoming, processed, outgoing, tree, result, heap, setup, flights>>

\* finally { if (timeoutId) clearTimeout(timeoutId) } that leaves the timer
ClearTimeoutSkipped(timer) == timer

\* finally { if (timeoutId) clearTimeout(timeoutId) }
ClearTimeout(timer) == IF timer = "armed" THEN "cleared" ELSE timer

\* the transport call settles and executeRequest clears the timer after the
\* await, without a finally block: only when the call resolved
TransportSettlesClearsOnSuccess(answer) ==
    /\ pc = "sent"
    /\ pc' = "settled"
    /\ run' = [run EXCEPT
                 !.outcome = IF run.signal = "aborted" \/ answer \in TransportErrors
                             THEN "rejected" ELSE "resolved",
                 !.value   = IF run.signal = "aborted" THEN AbortError ELSE answer,
                 !.timer   = IF run.signal = "aborted" \/ answer \in TransportErrors
                             THEN @ ELSE ClearTimeout(@)]
    /\ UNCHANGED <<config, call, incoming, processed, outgoing, tree, result, events,
                   heap, setup, flights>>

\* the transport call settles: it rejects with its abort error when the
\* signal was aborted, and otherwise answers or fails; executeRequest runs
\* its finally block and settles the same way
TransportSettles(answer) ==
    /\ pc = "sent"
    /\ pc' = "settled"
    /\ run' = [run EXCEPT
                 !.outcome = IF run.signal = "aborted" \/ answer \in TransportErrors
                             THEN "rejected" ELSE "resolved",
                 !.value   = IF run.signal = "aborted" THEN AbortError ELSE answer,
                 !.timer   = ClearTimeout(@)]
    /\ UNCHANGED <<config, call, incoming, processed, outgoing, tree, result, events,
                   heap, setup, flights>>

\* the caller has the outcome of the constructor or of the call
Return ==
    /\ pc \in {"constructed", "settled"}
    /\ pc' = "idle"
    /\ call' = NoCall
    /\ incoming' = NoRequest
    /\ processed' = NoRequest
    /\ outgoing' = Returned(NoRequest)
    /\ events' = <<>>
    /\ run' = NoRun
    /\ heap' = NoHeap
    /\ UNCHANGED <<config, tree, result, setup, flights>>

InitClient == pc = "new" /\ Blank /\ flights = NoFlights /\ setup = NoSetup /\ config = NoConfig

NextClient ==
    \/ pc = "new" /\ \E v \in VersionStrings : Construct(v)
    \/ Discard
    \/ pc = "idle" /\ \E q \in Queries, v \in ClientVariables, o \in OptionsSet :
                          RequestWith(q, v, o)
    \/ pc = "idle" /\ \E q \in Queries, v \in ClientVariables, o \in OptionsSet :
                          RawRequestWith(q, v, o)
    \/ Timeout
    \/ pc = "sent" /\ \E a \in Responses \cup TransportErrors : TransportSettles(a)
    \/ Return

SpecClient == InitClient /\ [][NextClient]_vars

-----------------------------------------------------------------------------
(* api-client.ts: requests in flight at the same time on one client *)

\* how many calls of request()/rawRequest() may be in flight together
MaxFlights == 2

Flights == 1..MaxFlights

\* the locals of one call of executeRequest: its arguments, the request its
\* own GraphQLClient hands to the transport, its timer and its controller's
\* signal, what the transport answered and how the call settled
NoFlight ==
    [state |-> "none", variables |-> Undefined, options |-> UndefinedOptions,
     request |-> NoRequest, timer |-> "none", signal |-> "none", answer |-> "",
     outcome |-> "none", value |-> ""]

\* what the request of a call looks like when it leaves the middleware
RequestOf(cfg, query, variables, options) ==
    createFileUploadMiddleware(
        cfg.requestMiddleware,
        PreparedRequest(createClient(cfg, ValidatedOptions(options).value),
                        query, variables)).request

\* executeRequest of one more call, up to the point where it awaits the
\* transport; the calls already in flight are left as they are
Start(i, query, variables, options) ==
    LET validated == ValidatedOptions(options)
        timer     == validated.ok /\ createAbortController(validated.value.timeout)
    IN  /\ pc = "idle"
        /\ flights[i].state = "none"
        /\ flights' = [flights EXCEPT ![i] =
              IF ~validated.ok
              THEN [NoFlight EXCEPT !.state = "settled", !.variables = variables,
                                    !.options = options, !.outcome = "rejected",
                                    !.value = "ZodError"]
              ELSE [NoFlight EXCEPT !.state = "sent", !.variables = variables,
                                    !.options = options,
                                    !.request = RequestOf(config, query, variables, options),
                                    !.timer = IF timer THEN "armed" ELSE "none",
                                    !.signal = IF timer THEN "idle" ELSE "none"]]
        /\ UNCHANGED <<pc, config, call, incoming, processed, outgoing, tree, result,
                       events, run, heap, setup>>

\* ApiClient.request(query, variables, options) while other calls are in flight
StartRequest(i, query, variables, options) == Start(i, query, variables, options)

\* ApiClient.rawRequest(query, variables, options) while other calls are in flight
StartRawRequest(i, query, variables, options) == Start(i, query, variables, options)

\* one controller shared by the calls: the callback of any timer aborts them all
AbortsEveryController(i, fs) == {j \in DOMAIN fs : fs[j].signal = "idle"}

\* the calls whose signal the callback of the timer of call i aborts: the
\* callback closes over the controller made with it
Aborts(i, fs) == {i}

\* the callback of the timer of call i runs: controller.abort()
TimeoutOf(i) ==
    /\ flights[i].timer = "armed"
    /\ flights' = [j \in DOMAIN flights |->
                     [flights[j] EXCEPT
                        !.timer  = IF j = i THEN "fired" ELSE @,
                        !.signal = IF j \in Aborts(i, flights) THEN "aborted" ELSE @]]
    /\ UNCHANGED <<pc, config, call, incoming, processed, outgoing, tree, result,
                   events, run, heap, setup>>

\* the transport call of call i settles, and executeRequest of that call runs
\* its finally block on its own timeoutId
SettlesOf(i, answer) ==
    /\ flights[i].state = "sent"
    /\ flights' = [flights EXCEPT ![i] =
          [@ EXCEPT !.state   = "settled",
                    !.answer  = IF flights[i].signal = "aborted" THEN "" ELSE answer,
                    !.outcome = IF flights[i].signal = "aborted"
                                   \/ answer \in TransportErrors
                                THEN "rejected" ELSE "resolved",
                    !.value   = IF flights[i].signal = "aborted" THEN AbortError
                                ELSE answer,
                    !.timer   = ClearTimeout(@)]]
    /\ UNCHANGED <<pc, config, call, incoming, processed, outgoing, tree, result,
                   events, run, heap, setup>>

\* the caller of call i has its outcome
ReturnOf(i) ==
    /\ flights[i].state = "settled"
    /\ flights' = [flights EXCEPT ![i] = NoFlight]
    /\ UNCHANGED <<pc, config, call, incoming, processed, outgoing, tree, result,
                   events, run, heap, setup>>

\* the default of the constructor's apiVersion (lib/constants)
DEFAULT_VERSION == <<"2", "0", "2", "5", "-", "0", "4">>

\* what new ApiClient({ token, apiVersion, requestConfig: { headers } }) keeps
\* when it does not throw: apiVersion = DEFAULT_VERSION when none is passed
constructor(apiVersion, headers) ==
    [headers |-> headers, requestMiddleware |-> "none",
     apiVersion |-> Text(IF apiVersion.defined THEN apiVersion.chars
                         ELSE DEFAULT_VERSION)]

\* the apiVersion and the requestConfig.headers the clients are built with
ConstructorArguments ==
    {<<Version(<<"2", "0", "2", "5", "-", "0", "1">>), NoHeaders>>,
     <<Absent, NoHeaders>>,
     <<Version(<<"2", "0", "2", "5", "-", "0", "1">>), (HApiVersion :> "2023-10")>>}

ConcurrentVariables ==
    {Obj(<<Entry("a", Blob("F1"))>>), Obj(<<Entry("a", Blob("F2"))>>)}

ConcurrentOptions ==
    {UndefinedOptions,
     Options(Version(Dev), Num(5000), Absent),
     Options(Absent, Num(0), Absent)}

\* what the transport may answer to a call, or fail with
ConcurrentAnswers == {"data A"} \cup TransportErrors

\* a client has been constructed; run.options keeps the apiVersion passed
InitConcurrent ==
    /\ pc = "idle"
    /\ call = NoCall
    /\ incoming = NoRequest
    /\ processed = NoRequest
    /\ outgoing = Returned(NoRequest)
    /\ tree = Undefined
    /\ result = NoResult
    /\ events = <<>>
    /\ heap = NoHeap
    /\ setup = NoSetup
    /\ \E a \in ConstructorArguments :
         /\ isValidApiVersion(IF a[1].defined THEN a[1].chars ELSE DEFAULT_VERSION)
         /\ config = constructor(a[1], a[2])
         /\ run = [NoRun EXCEPT !.options = Options(a[1], Absent, Absent)]
    /\ flights = [i \in Flights |-> NoFlight]

NextConcurrent ==
    \/ \E i \in Flights, q \in Queries, v \in ConcurrentVariables, o \in ConcurrentOptions :
          StartRequest(i, q, v, o)
    \/ \E i \in Flights, q \in Queries, v \in ConcurrentVariables, o \in ConcurrentOptions :
          StartRawRequest(i, q, v, o)
    \/ \E i \in Flights : TimeoutOf(i)
    \/ \E i \in Flights, a \in ConcurrentAnswers : SettlesOf(i, a)
    \/ \E i \in Flights : ReturnOf(i)

SpecConcurrent == InitConcurrent /\ [][NextConcurrent]_vars

-----------------------------------------------------------------------------
(* setup-api/lib/index.ts: the setup tool *)

GRAPHQL_REQUEST == "graphql-request@6.1.0"
GRAPHQL         == "graphql@16.8.2"
CodegenCli      == "@graphql-codegen/cli@^5.0.5"
ClientPreset    == "@graphql-codegen/client-preset@^4.8.0"

RECURSIVE Join(_, _)
\* args.join(separator)
Join(args, separator) ==
    IF args = <<>> THEN ""
    ELSE IF Len(args) = 1 THEN args[1]
    ELSE args[1] \o separator \o Join(Tail(args), separator)

\* the package managers detect() may find, beside finding none ("null")
Agents == {"pnpm", "yarn", "bun"}

\* resolveCommand(agent, command, args): the agent's binary with the command
\* before the arguments, or null when the command cannot be resolved
resolveCommand(resolves, agent, command, args) ==
    IF resolves THEN [found |-> TRUE, command |-> agent, args |-> <<command>> \o args]
    ELSE [found |-> FALSE, command |-> "", args |-> <<>>]

\* detectPackageManager: the cached result, or that of a call of detect()
detectPackageManager(s) ==
    IF s.cachedPm # "undefined"
    THEN [pm |-> s.cachedPm, calls |-> <<>>]
    ELSE [pm |-> s.detect, calls |-> <<"detect">>]

\* the run command of npm, whatever was detected
getRunScriptCommandNpm(resolves, pm, scriptName) == "npm run " \o scriptName

getRunScriptCommand(resolves, pm, scriptName) ==
    IF pm = "null" THEN "npm run " \o scriptName
    ELSE LET runCmd == resolveCommand(resolves, pm, "run", <<scriptName>>)
         IN  IF ~runCmd.found THEN "npm run " \o scriptName
             ELSE runCmd.command \o " " \o Join(runCmd.args, " ")

\* getInstallCommands, given the detected package manager
getInstallCommands(resolves, pm) ==
    IF pm = "null"
    THEN [threw |-> FALSE,
          commands |->
            <<"npm install " \o GRAPHQL_REQUEST \o " " \o GRAPHQL,
              "npm install --save-dev @graphql-codegen/cli@^5.0.5 @graphql-codegen/client-preset@^4.8.0">>]
    ELSE LET prodCmd == resolveCommand(resolves, pm, "add", <<GRAPHQL_REQUEST, GRAPHQL>>)
             devCmd  == resolveCommand(resolves, pm, "add", <<"-D", CodegenCli, ClientPreset>>)
         IN  IF ~prodCmd.found \/ ~devCmd.found
             THEN [threw |-> TRUE, commands |-> <<>>]
             ELSE [threw |-> FALSE,
                   commands |-> <<prodCmd.command \o " " \o Join(prodCmd.args, " "),
                                  devCmd.command \o " " \o Join(devCmd.args, " ")>>]

\* the place of the first command that exits with a code other than 0, or 0
FirstFailure(codes, n) ==
    IF \E i \in 1..n : codes[i] # 0
    THEN CHOOSE i \in 1..n : codes[i] # 0 /\ \A j \in 1..(i - 1) : codes[j] = 0
    ELSE 0

\* installPackages: the commands are executed in order; shell.exit(1) ends
\* the process at the first that fails
installPackages(s, codes) ==
    LET detected == detectPackageManager(s)
        cached   == [s EXCEPT !.cachedPm = detected.pm]
        install  == getInstallCommands(s.resolves, detected.pm)
        failure  == FirstFailure(codes, Len(install.commands))
    IN  IF install.threw
        THEN [status |-> "failed", setup |-> cached, calls |-> detected.calls]
        ELSE [status |-> IF failure = 0 THEN "done" ELSE "exited",
              setup  |-> [cached EXCEPT !.executed =
                            IF failure = 0 THEN install.commands
                            ELSE SubSeq(install.commands, 1, failure)],
              calls  |-> detected.calls]

\* createFiles: the files written
createFiles(s) ==
    [s EXCEPT !.files = @ \cup {"codegen.yml", "graphql.config.yml", "src",
                                "src/queries.graphql.ts", "fetch-schema.sh"}]

\* updatePackageJsonScripts
updatePackageJsonScripts(s) ==
    IF ~s.packageJson.exists THEN [status |-> "done", setup |-> s, calls |-> <<>>]
    ELSE LET detected == detectPackageManager(s)
             pm       == detected.pm
         IN  [status |-> "done",
              setup  |-> [s EXCEPT
                  !.cachedPm = pm,
                  !.packageJson.scripts =
                      Spread(@, ("fetch:schema" :> "bash fetch-schema.sh")
                                @@ ("codegen" :> "graphql-codegen")
                                @@ ("fetch:generate" :>
                                      getRunScriptCommand(s.resolves, pm, "fetch:schema")
                                      \o " && "
                                      \o getRunScriptCommand(s.resolves, pm, "codegen")))],
              calls  |-> detected.calls]

\* setupGraphQL; the message is the one logged, without its backquotes
setupGraphQL(s, codes) ==
    LET installed == installPackages(s, codes)
    IN  IF installed.status # "done" THEN installed
        ELSE LET updated  == updatePackageJsonScripts(createFiles(installed.setup))
                 detected == detectPackageManager(updated.setup)
             IN  [status |-> "done",
                  setup  |-> [updated.setup EXCEPT
                      !.cachedPm = detected.pm,
                      !.message = "Setup complete! run "
                          \o getRunScriptCommand(s.resolves, detected.pm, "fetch:generate")
                          \o " to fetch the schema and generate types"],
                  calls  |-> installed.calls \o updated.calls \o detected.calls]

\* an exported operation has run
Ran(name, outcome) ==
    /\ pc = "idle"
    /\ pc' = outcome.status
    /\ call' = [NoCall EXCEPT !.api = name]
    /\ setup' = outcome.setup
    /\ events' = outcome.calls
    /\ UNCHANGED <<config, incoming, processed, outgoing, tree, result, run, heap,
                   flights>>

InstallPackages(codes) == Ran("installPackages", installPackages(setup, codes))

CreateFiles ==
    Ran("createFiles", [status |-> "done", setup |-> createFiles(setup), calls |-> <<>>])

UpdatePackageJsonScripts == Ran("updatePackageJsonScripts", updatePackageJsonScripts(setup))

SetupGraphQL(codes) == Ran("setupGraphQL", setupGraphQL(setup, codes))

\* the operation has returned; the module is ready for the next one
Again ==
    /\ pc = "done"
    /\ pc' = "idle"
    /\ call' = NoCall
    /\ events' = <<>>
    /\ setup' = [setup EXCEPT !.executed = <<>>, !.message = ""]
    /\ run' = NoRun
    /\ UNCHANGED <<config, incoming, processed, outgoing, tree, result, heap, flights>>

\* the process has ended; the tool is started again in the same directory
Restart ==
    /\ pc \in {"exited", "failed"}
    /\ pc' = "idle"
    /\ call' = NoCall
    /\ events' = <<>>
    /\ setup' = [setup EXCEPT !.cachedPm = "undefined", !.executed = <<>>, !.message = ""]
    /\ run' = NoRun
    /\ UNCHANGED <<config, incoming, processed, outgoing, tree, result, heap, flights>>

\* the exit codes of the two install commands
ExitCodes == [1..2 -> {0, 1}]

\* the package.json of the directory the tool runs in
PackageJsons ==
    {[exists |-> FALSE, scripts |-> [n \in {} |-> ""]],
     [exists |-> TRUE, scripts |-> [n \in {} |-> ""]],
     [exists |-> TRUE, scripts |-> ("test" :> "jest") @@ ("codegen" :> "echo")]}

SetupEnvironments ==
    {[NoSetup EXCEPT !.detect = d, !.resolves = r, !.packageJson = p] :
        d \in Agents \cup {"null"}, r \in BOOLEAN, p \in PackageJsons}

InitSetup == pc = "idle" /\ Blank /\ flights = NoFlights /\ config = NoConfig /\ setup \in SetupEnvironments

NextSetup ==
    \/ \E codes \in ExitCodes : InstallPackages(codes)
    \/ CreateFiles
    \/ UpdatePackageJsonScripts
    \/ \E codes \in ExitCodes : SetupGraphQL(codes)
    \/ Again
    \/ Restart

SpecSetup == InitSetup /\ [][NextSetup]_vars

-----------------------------------------------------------------------------
(* setup-api/lib/index.ts: the cache of the detection and its reset *)

\* The module exports installPackages, createFiles, updatePackageJsonScripts
\* and setupGraphQL.  cachedPm is assigned in detectPackageManager and nowhere
\* else; the module defines no _resetCache, so the name imported from it is
\* undefined and calling it throws a TypeError.
ResetCache ==
    /\ pc = "idle"
    /\ call.api # "_resetCache"
    /\ call' = [NoCall EXCEPT !.api = "_resetCache"]
    /\ run' = [NoRun EXCEPT !.outcome = "threw", !.value = "TypeError"]
    /\ UNCHANGED <<pc, config, incoming, processed, outgoing, tree, result, events,
                   heap, setup, flights>>

\* a lockfile appears in the directory or goes: detect() has another result
LockfileChanges(d) ==
    /\ pc = "idle"
    /\ d # setup.detect
    /\ setup' = [setup EXCEPT !.detect = d]
    /\ UNCHANGED <<pc, config, call, incoming, processed, outgoing, tree, result,
                   events, run, heap, flights>>

ResetEnvironments ==
    {s \in SetupEnvironments : s.resolves /\ s.detect \in {"null", "pnpm"}}

InitReset ==
    /\ pc = "idle"
    /\ Blank
    /\ flights = NoFlights
    /\ config = NoConfig
    /\ setup \in ResetEnvironments

NextReset ==
    \/ \E codes \in ExitCodes : InstallPackages(codes)
    \/ UpdatePackageJsonScripts
    \/ \E codes \in ExitCodes : SetupGraphQL(codes)
    \/ Again
    \/ Restart
    \/ ResetCache
    \/ \E d \in {"null", "pnpm"} : LockfileChanges(d)

SpecReset == InitReset /\ [][NextReset]_vars

-----------------------------------------------------------------------------
(* setup-api/lib/index.ts: operations of the setup tool that overlap *)

\* The exported operations are async functions: a caller may start one while
\* another awaits.  detectPackageManager suspends at `await detect()`, between
\* its test of cachedPm and its assignment to it.

\* an operation of the tool: where it stands and how it ended
NoOperation == [state |-> "none", op |-> "none", status |-> "none"]

\* the operations that ask for the package manager
DetectingOperations == {"installPackages", "updatePackageJsonScripts", "setupGraphQL"}

\* whether the operation returns before it asks for the package manager
ReturnsAtOnce(s, op) == op = "updatePackageJsonScripts" /\ ~s.packageJson.exists

\* the operation starts and runs up to its first await: it returns at once,
\* or calls detectPackageManager, which returns cachedPm when that is not
\* undefined and otherwise calls detect() and awaits it
BeginOperation(i, op) ==
    /\ pc = "idle"
    /\ flights[i].state = "none"
    /\ IF ReturnsAtOnce(setup, op)
       THEN /\ flights' = [flights EXCEPT ![i] =
                             [state |-> "done", op |-> op, status |-> "done"]]
            /\ UNCHANGED events
       ELSE IF setup.cachedPm # "undefined"
       THEN /\ flights' = [flights EXCEPT ![i] =
                             [state |-> "detected", op |-> op, status |-> "none"]]
            /\ UNCHANGED events
       ELSE /\ flights' = [flights EXCEPT ![i] =
                             [state |-> "awaiting detect", op |-> op, status |-> "none"]]
            /\ events' = Append(events, "detect")
    /\ UNCHANGED <<pc, config, call, incoming, processed, outgoing, tree, result, run,
                   heap, setup>>

\* detect() resolves for the operation that awaits it: cachedPm = await detect()
DetectResolves(i) ==
    /\ pc = "idle"
    /\ flights[i].state = "awaiting detect"
    /\ flights' = [flights EXCEPT ![i].state = "detected"]
    /\ setup' = [setup EXCEPT !.cachedPm = setup.detect]
    /\ UNCHANGED <<pc, config, call, incoming, processed, outgoing, tree, result,
                   events, run, heap>>

\* the rest of an operation that has the package manager
RestOf(op, s, codes) ==
    CASE op = "installPackages"          -> installPackages(s, codes)
      [] op = "updatePackageJsonScripts" -> updatePackageJsonScripts(s)
      [] op = "setupGraphQL"             -> setupGraphQL(s, codes)

\* the operation goes on with the package manager it was given; shell.exit(1)
\* ends the process and every operation with it
ContinueOperation(i, codes) ==
    LET outcome == RestOf(flights[i].op, setup, codes)
    IN  /\ pc = "idle"
        /\ flights[i].state = "detected"
        /\ setup' = outcome.setup
        /\ events' = events \o outcome.calls
        /\ IF outcome.status = "exited"
           THEN /\ pc' = "exited"
                /\ flights' = [j \in DOMAIN flights |-> NoOperation]
           ELSE /\ pc' = pc
                /\ flights' = [flights EXCEPT ![i].state = "done",
                                              ![i].status = outcome.status]
        /\ UNCHANGED <<config, call, incoming, processed, outgoing, tree, result, run,
                       heap>>

\* the caller has the outcome of the operation
EndOperation(i) ==
    /\ pc = "idle"
    /\ flights[i].state = "done"
    /\ flights' = [flights EXCEPT ![i] = NoOperation]
    /\ UNCHANGED <<pc, config, call, incoming, processed, outgoing, tree, result,
                   events, run, heap, setup>>

\* the directories the overlapping operations run in
OverlapEnvironments ==
    {s \in SetupEnvironments : s.resolves /\ s.detect \in {"null", "pnpm"}}

InitOverlap ==
    /\ pc = "idle"
    /\ Blank
    /\ config = NoConfig
    /\ setup \in OverlapEnvironments
    /\ flights = [i \in Flights |-> NoOperation]

NextOverlap ==
    \/ \E i \in Flights, op \in DetectingOperations : BeginOperation(i, op)
    \/ \E i \in Flights : DetectResolves(i)
    \/ \E i \in Flights, codes \in ExitCodes : ContinueOperation(i, codes)
    \/ \E i \in Flights : EndOperation(i)
    \/ Restart

SpecOverlap == InitOverlap /\ [][NextOverlap]_vars

-----------------------------------------------------------------------------
(* Positions of a tree, used to state the properties below *)

\* the step from node n to its i-th child: the decimal index of an array
\* element, the key of an object entry
Step(n, i) == IF n.k = "arr" THEN ToString(i - 1) ELSE n.c[i].key

RECURSIVE Routes(_)
\* every position of a tree, as the sequence of steps that leads to it
Routes(n) ==
    {<<>>} \cup UNION {{<<Step(n, i)>> \o r : r \in Routes(n.c[i].node)} : i \in DOMAIN n.c}

\* the place among n's children of the child reached by `step`
PlaceOf(n, step) == CHOOSE i \in DOMAIN n.c : Step(n, i) = step

RECURSIVE NodeAt(_, _)
NodeAt(n, route) ==
    IF route = <<>> THEN n
    ELSE NodeAt(n.c[PlaceOf(n, Head(route))].node, Tail(route))

FileRoutes(n) == IF n = Undefined THEN {} ELSE {r \in Routes(n) : NodeAt(n, r).k = "file"}

RECURSIVE DotJoin(_)
DotJoin(route) == IF route = <<>> THEN "" ELSE "." \o Head(route) \o DotJoin(Tail(route))
\* 'variables', then '.<key>' or '.<index>' for each step of the route
PathOf(route) == "variables" \o DotJoin(route)

\* the length of the longest common prefix of two routes
CommonPrefix(r1, r2) ==
    CHOOSE m \in 0..Len(r1) :
        /\ m <= Len(r2)
        /\ \A i \in 1..m : r1[i] = r2[i]
        /\ (m < Len(r1) /\ m < Len(r2)) => r1[m + 1] # r2[m + 1]
        /\ (m = Len(r1) \/ m = Len(r2) \/ r1[m + 1] # r2[m + 1])

\* position r1 comes before position r2 when the children of every array are
\* taken by ascending index and the entries of every object in the order they
\* were inserted
InsertionBefore(t, r1, r2) ==
    LET m == CommonPrefix(r1, r2)
        n == NodeAt(t, SubSeq(r1, 1, m))
    IN  /\ m < Len(r1) /\ m < Len(r2)
        /\ PlaceOf(n, r1[m + 1]) < PlaceOf(n, r2[m + 1])

\* the same, the entries of every object taken in own-property order:
\* integer-index keys first, by ascending numeric value, then the other keys
\* in the order they were inserted
KeyBefore(n, i, j) ==
    LET ki == n.c[i].key
        kj == n.c[j].key
    IN  IF IsIndexKey(ki) /\ IsIndexKey(kj) THEN IndexOfKey(ki) < IndexOfKey(kj)
        ELSE IF IsIndexKey(ki) # IsIndexKey(kj) THEN IsIndexKey(ki)
        ELSE i < j
OwnPropertyBefore(t, r1, r2) ==
    LET m == CommonPrefix(r1, r2)
        n == NodeAt(t, SubSeq(r1, 1, m))
        i == PlaceOf(n, r1[m + 1])
        j == PlaceOf(n, r2[m + 1])
    IN  /\ m < Len(r1) /\ m < Len(r2)
        /\ IF n.k = "arr" THEN i < j ELSE KeyBefore(n, i, j)

\* the enumerations of the set S of routes
Enumerations(S) ==
    {e \in [1..Cardinality(S) -> S] : \A i, j \in DOMAIN e : e[i] = e[j] => i = j}

-----------------------------------------------------------------------------
(* What a sent request looks like *)

Sent        == pc = "sent" /\ ~outgoing.threw
Transformed == Sent /\ outgoing.request.body.type = "formdata"

\* FormData.get(name): the value of the first entry of that name
FormGet(parts, name) ==
    parts[CHOOSE i \in DOMAIN parts :
            /\ parts[i].name = name
            /\ \A j \in 1..(i - 1) : parts[j].name # name].value
BinaryParts(parts)   == SelectSeq(parts, LAMBDA e : e.kind = "file")

OutParts == outgoing.request.body.parts

-----------------------------------------------------------------------------
(* C1 *)

\* C1: when the variables of the request (as the chained hook left it) are
\* absent or hold no File/Blob at any depth, the middleware returns exactly
\* that request: same body, same headers, same every other field.
C1_PassThroughWithoutFiles ==
    (pc = "sent" /\ FileRoutes(processed.variables) = {})
        => outgoing = Returned(processed)

\* a request with file-free variables went through a client whose hook had
\* changed the headers, and left with its JSON body and Content-Type
C1_Witness ==
    /\ pc = "sent"
    /\ config.requestMiddleware = "setHeader"
    /\ processed.variables # Undefined
    /\ \E r \in Routes(processed.variables) : NodeAt(processed.variables, r).k = "scalar"
    /\ FileRoutes(processed.variables) = {}
    /\ outgoing.request.body.type = "string"
    /\ HContentType \in DOMAIN outgoing.request.headers

-----------------------------------------------------------------------------
(* C2 *)

\* C2: the cleaned tree has the positions of the input tree (same array
\* lengths, same object keys); it holds null wherever the input holds a
\* File/Blob, and at every other position a node of the input's kind and
\* value.
C2_CleanedTreeShape ==
    pc = "extracted" =>
        /\ Routes(result.cleanedVariables) = Routes(tree)
        /\ \A r \in Routes(tree) :
             LET a == NodeAt(tree, r)
                 b == NodeAt(result.cleanedVariables, r)
             IN  IF a.k = "file" THEN b = Null
                 ELSE b.k = a.k /\ b.v = a.v /\ Len(b.c) = Len(a.c)

\* extraction of a tree that holds a File/Blob below the first level beside a
\* string
C2_Witness ==
    /\ pc = "extracted"
    /\ \E r \in FileRoutes(tree) : Len(r) >= 2
    /\ \E r \in Routes(tree) : NodeAt(tree, r).k = "scalar"
    /\ \E r \in Routes(tree) : NodeAt(tree, r).k = "arr"

-----------------------------------------------------------------------------
(* C3 *)

\* C3: the file entries are, one for one, the File/Blob positions of the
\* tree, and the path of each is 'variables' followed by '.<key>' per object
\* key and '.<index>' per array index on its route.
C3_EntryPaths ==
    pc = "extracted" =>
        \E e \in Enumerations(FileRoutes(tree)) :
            /\ Len(result.files) = Len(e)
            /\ \A i \in DOMAIN e :
                 /\ result.files[i].path = PathOf(e[i])
                 /\ result.files[i].file = NodeAt(tree, e[i])

\* extraction of a tree with a File/Blob as second element of an array that
\* is the value of an object key
C3_Witness ==
    /\ pc = "extracted"
    /\ \E i \in DOMAIN result.files :
         /\ result.files[i].path = "variables.a.1"
         /\ result.files[i].file = Blob("F2")
    /\ NodeAt(tree, <<"a">>).k = "arr"

-----------------------------------------------------------------------------
(* C4 *)

RECURSIVE MapMembers(_, _)
MapMembers(paths, i) ==
    IF i > Len(paths) THEN ""
    ELSE (IF i > 1 THEN "," ELSE "") \o "\"" \o ToString(i - 1) \o "\":[\""
             \o paths[i] \o "\"]" \o MapMembers(paths, i + 1)
\* the JSON text {"0":["<path 1>"],"1":["<path 2>"],...}
MapText(paths) == "{" \o MapMembers(paths, 1) \o "}"

\* the multipart body numbers the File/Blob positions as `e` enumerates them
NumberedAs(e) ==
    /\ FormGet(OutParts, "map") = MapText([i \in DOMAIN e |-> PathOf(e[i])])
    /\ BinaryParts(OutParts) =
         [i \in DOMAIN e |-> Part(ToString(i - 1), NodeAt(processed.variables, e[i]))]

-----------------------------------------------------------------------------
(* C5 *)

\* C5: with n File/Blob leaves in the variables, the 'map' field is the JSON
\* object with the keys "0".."n-1", key i listing the path of file entry i
\* alone; the body carries n binary parts beside its three fields, part i
\* being the File/Blob that stood at that path in the variables.
C5_MapAndParts ==
    Transformed =>
        LET files == extractFiles(processed.variables).files
            n     == Cardinality(FileRoutes(processed.variables))
            bin   == BinaryParts(OutParts)
        IN  /\ Len(files) = n
            /\ FormGet(OutParts, "map") = MapText([i \in 1..n |-> files[i].path])
            /\ Len(bin) = n
            /\ Len(OutParts) = n + 3
            /\ \A i \in 1..n :
                 /\ bin[i].name = ToString(i - 1)
                 /\ \E r \in FileRoutes(processed.variables) :
                      /\ PathOf(r) = files[i].path
                      /\ NodeAt(processed.variables, r) = Blob(bin[i].value)

\* a transformed request with two different Blobs in one array
C5_Witness ==
    /\ Transformed
    /\ FormGet(OutParts, "map") = "{\"0\":[\"variables.a.0\"],\"1\":[\"variables.a.1\"]}"
    /\ FormGet(OutParts, "0") = "F2"
    /\ FormGet(OutParts, "1") = "F1"

-----------------------------------------------------------------------------
(* C6 *)

RECURSIVE FilesAsNull(_)
\* a tree with null written for each of its File/Blobs
FilesAsNull(n) ==
    IF n.k = "file" THEN Null
    ELSE [n EXCEPT !.c = [i \in DOMAIN n.c |-> [n.c[i] EXCEPT !.node = FilesAsNull(@)]]]

VariablesFieldIsCleanedTree ==
    /\ FormGet(OutParts, "variables")
         = JSONstringify(extractFiles(processed.variables).cleanedVariables)
    /\ FormGet(OutParts, "variables") = JSONstringify(FilesAsNull(processed.variables))

\* C6, as claimed: on every transformed request the field 'query' is the
\* caller's query string and the field 'variables' is the JSON text of the
\* cleaned tree.
C6_CallerQuery ==
    Transformed =>
        /\ FormGet(OutParts, "query") = call.query
        /\ VariablesFieldIsCleanedTree

\* C6, amended: the field 'query' is the string conversion of the query
\* member of the JSON body that reached the middleware (the text 'undefined'
\* when that body has none), hence the caller's query string whenever no
\* chained hook replaced the body; the field 'variables' is the JSON text of
\* the cleaned tree.
C6_BodyQuery ==
    Transformed =>
        /\ FormGet(OutParts, "query") =
             (IF processed.body.doc.hasQuery THEN processed.body.doc.query
              ELSE "undefined")
        /\ processed.body = incoming.body => FormGet(OutParts, "query") = call.query
        /\ VariablesFieldIsCleanedTree

\* a rawRequest() with a Blob beside a string, sent by a client without hook
C6_Witness ==
    /\ Transformed
    /\ call.api = "rawRequest"
    /\ config.requestMiddleware = "none"
    /\ FormGet(OutParts, "query") = call.query
    /\ FormGet(OutParts, "variables") = "{\"0\":\"s\",\"a\":null}"

-----------------------------------------------------------------------------
(* C7 *)

\* two header names that differ at most in the case of their letters
SameIgnoringCase(a, b) ==
    /\ Len(a) = Len(b)
    /\ \A i \in DOMAIN a :
         \/ a[i] = b[i]
         \/ \E l \in DOMAIN UpperCase :
              {a[i], b[i]} = {UpperCase[l], LowerCase[l]}

\* C7: a transformed request carries no header named content-type in any
\* casing.
C7_NoContentType ==
    Transformed =>
        \A name \in DOMAIN outgoing.request.headers :
            ~SameIgnoringCase(name, HContentTypeLo)

\* a transformed request that reached the middleware with four differently
\* cased content-type headers
C7_Witness ==
    /\ Transformed
    /\ {HContentType, HContentTypeLo, HContentTypeUp, HContentTypeMx}
         \subseteq DOMAIN processed.headers
    /\ HAuthorization \in DOMAIN outgoing.request.headers

-----------------------------------------------------------------------------
(* C8 *)

\* C8: hasFiles is false for absent variables, and otherwise true exactly
\* when some position of the tree, at any depth, holds a File/Blob.
C8_HasFiles ==
    pc = "checked" =>
        /\ tree = Undefined => ~result.has
        /\ tree # Undefined =>
             (result.has <=> \E r \in Routes(tree) : NodeAt(tree, r).k = "file")

\* hasFiles found the only File/Blob of a tree three levels down, in an array
C8_Witness ==
    /\ pc = "checked"
    /\ result.has
    /\ Cardinality(FileRoutes(tree)) = 1
    /\ \E r \in FileRoutes(tree) :
         Len(r) = 3 /\ NodeAt(tree, SubSeq(r, 1, 2)).k = "arr"

-----------------------------------------------------------------------------
(* C9 *)

HasFileLeaf(variables) == FileRoutes(variables) # {}

\* C9: with a File/Blob in the variables and a body that is no string, or a
\* string that is no JSON, the middleware returns the request as it is and
\* raises nothing.
C9_UnparsableBodyPassesThrough ==
    (/\ pc = "sent"
     /\ HasFileLeaf(processed.variables)
     /\ \/ processed.body.type # "string"
        \/ processed.body.doc.json = "malformed")
        => outgoing = Returned(processed)

\* a request with a Blob whose body a hook had replaced by text that is no
\* JSON left the middleware untouched
C9_Witness ==
    /\ pc = "sent"
    /\ config.requestMiddleware = "bodyMalformed"
    /\ HasFileLeaf(processed.variables)
    /\ ~outgoing.threw
    /\ outgoing.request.body = StringBody(Malformed)
    /\ outgoing.request.headers = incoming.headers

-----------------------------------------------------------------------------
(* C10 *)

\* C10: with a File/Blob in the variables and a body that is JSON text
\* without a 'query' member the middleware returns the request unmodified; a
\* multipart body is produced only when the parsed body has a query member.
C10_NoQueryPassesThrough ==
    /\ (/\ pc = "sent"
        /\ HasFileLeaf(processed.variables)
        /\ processed.body.type = "string"
        /\ processed.body.doc.json \in {"object", "null"}
        /\ ~processed.body.doc.hasQuery)
           => outgoing = Returned(processed)
    /\ Transformed => processed.body.doc.hasQuery

-----------------------------------------------------------------------------
(* C11 *)

\* C11: on a transformed request only the body and the content-type headers
\* differ from the request the middleware worked on: method, target URL,
\* variables and every header whose name is not content-type come out with
\* the values they came in with (those of the caller's request when no hook
\* is chained), and no field is added or removed.
C11_OnlyBodyAndContentTypeDiffer ==
    Transformed =>
        LET out == outgoing.request
            Other(headers) ==
                {n \in DOMAIN headers : ~SameIgnoringCase(n, HContentTypeLo)}
        IN  /\ DOMAIN out = DOMAIN processed
            /\ out.method = processed.method
            /\ out.url = processed.url
            /\ out.variables = processed.variables
            /\ Other(out.headers) = Other(processed.headers)
            /\ \A n \in Other(processed.headers) : out.headers[n] = processed.headers[n]
            /\ config.requestMiddleware = "none" =>
                  /\ out.method = incoming.method
                  /\ out.url = incoming.url
                  /\ \A n \in Other(incoming.headers) :
                       n \in DOMAIN out.headers /\ out.headers[n] = incoming.headers[n]

\* a transformed request left with the URL and the Authorization header a
\* hook had set, and with the client's API-Version and Api-Sdk-Version
C11_Witness ==
    /\ Transformed
    /\ config.requestMiddleware = "setUrl"
    /\ outgoing.request.url = HookUrl
    /\ outgoing.request.method = "POST"
    /\ outgoing.request.headers[HAuthorization] = HookToken
    /\ outgoing.request.headers[HApiVersion] = config.apiVersion
    /\ outgoing.request.headers[HApiSdkVersion] = ApiSdkVersion
    /\ HContentType \in DOMAIN processed.headers

-----------------------------------------------------------------------------
(* C12 *)

\* how often a call occurs in a sequence of calls
Count(calls, name) == Cardinality({i \in DOMAIN calls : calls[i] = name})

\* the calls of the upload middleware proper
UploadCalls ==
    {"hasFiles", "JSON.parse", "extractFiles", "createMultipartFormData",
     "delete headers[key]"}

\* C12: on every request of a client built with a requestMiddleware, that
\* hook is called exactly once and before detection, parsing, extraction and
\* header stripping; these work on the variables, body and headers of the
\* hook's output: the request is transformed exactly when the hook's output
\* holds a File/Blob and a parsable string body, the multipart fields and
\* the remaining headers are computed from the hook's output, and otherwise
\* the hook's output leaves as it is.
C12_HookRunsOnceAndFirst ==
    (pc = "sent" /\ config.requestMiddleware # "none") =>
        LET hooked == existingMiddleware(config.requestMiddleware, incoming)
            out    == outgoing.request
            parsable ==
                hooked.body.type = "string" /\ hooked.body.doc.json = "object"
        IN  /\ Count(events, "existingMiddleware") = 1
            /\ \A i, j \in DOMAIN events :
                 (events[i] = "existingMiddleware" /\ events[j] \in UploadCalls) => i < j
            /\ ~outgoing.threw
            /\ outgoing = createFileUploadMiddleware("none", hooked)
            /\ out.body.type = "formdata" <=> (HasFileLeaf(hooked.variables) /\ parsable)
            /\ out.body.type = "formdata" =>
                 /\ FormGet(out.body.parts, "variables")
                      = JSONstringify(FilesAsNull(hooked.variables))
                 /\ Len(BinaryParts(out.body.parts))
                      = Cardinality(FileRoutes(hooked.variables))
                 /\ DOMAIN out.headers =
                      {n \in DOMAIN hooked.headers : ~SameIgnoringCase(n, HContentTypeLo)}
            /\ out.body.type # "formdata" => out = hooked

\* the caller passed variables without a file, the hook put a Blob into them,
\* and the request left as a multipart form carrying that Blob
C12_Witness ==
    /\ Transformed
    /\ config.requestMiddleware = "addFile"
    /\ call.variables # Undefined
    /\ ~HasFileLeaf(call.variables)
    /\ events[2] = "existingMiddleware"
    /\ FormGet(OutParts, "0") = "F2"
    /\ FormGet(OutParts, "map") = "{\"0\":[\"variables.a\"]}"

-----------------------------------------------------------------------------
(* C13 *)

\* the object keys of the model that contain the path separator
KeysWithDot == {"a.0"}

\* The server side of the multipart request convention: a path of the map is
\* split at its dots and followed segment by segment through the variables
\* it received, so it leads to the position whose steps, none of which
\* contains a dot, spell that path.
ServerRoutes(variables, path) ==
    {r \in Routes(variables) :
        /\ \A i \in DOMAIN r : r[i] \notin KeysWithDot
        /\ PathOf(r) = path}

RECURSIVE PutAt(_, _, _)
\* the tree n with `value` at the position `route`
PutAt(n, route, value) ==
    IF route = <<>> THEN value
    ELSE [n EXCEPT !.c[PlaceOf(n, Head(route))].node = PutAt(@, Tail(route), value)]

RECURSIVE Substitute(_, _, _)
\* parts i, i+1, ... put back at the paths listed under the map keys
\* i-1, i, ...; ok is false when a path leads nowhere
Substitute(variables, files, i) ==
    IF i > Len(files) THEN [ok |-> TRUE, variables |-> variables]
    ELSE LET routes == ServerRoutes(variables, files[i].path)
         IN  IF routes = {} THEN [ok |-> FALSE, variables |-> variables]
             ELSE Substitute(PutAt(variables, CHOOSE r \in routes : TRUE, files[i].file),
                             files, i + 1)

RECURSIVE SameValue(_, _)
\* deep equality of two values: arrays element by element, objects key by key
SameValue(a, b) ==
    /\ a.k = b.k
    /\ a.v = b.v
    /\ Len(a.c) = Len(b.c)
    /\ IF a.k = "obj"
       THEN \A i \in DOMAIN a.c : \E j \in DOMAIN b.c :
                a.c[i].key = b.c[j].key /\ SameValue(a.c[i].node, b.c[j].node)
       ELSE \A i \in DOMAIN a.c : SameValue(a.c[i].node, b.c[i].node)

RoundTrip ==
    LET decoded == Substitute(result.cleanedVariables, result.files, 1)
    IN  decoded.ok /\ SameValue(decoded.variables, tree)

\* C13: for every variables tree, putting part i back into the cleaned tree
\* at the path listed under map key i, for every i, yields a tree equal to
\* the original one.
C13_RoundTrip == pc = "extracted" => RoundTrip

\* the round trip of the trees none of whose object keys contains a dot
RoundTripWithoutDottedKeys ==
    (pc = "extracted" /\ \A r \in Routes(tree) : \A i \in DOMAIN r : r[i] \notin KeysWithDot)
        => RoundTrip

-----------------------------------------------------------------------------
(* What a call with options looks like *)

\* a request()/rawRequest() call is under way or has settled
InCall == pc \in {"sent", "settled"} /\ call.api \in {"request", "rawRequest"}

\* the call was rejected by the validation of its options
Rejected == InCall /\ pc = "settled" /\ run.outcome = "rejected" /\ run.value = "ZodError"

\* the call went past the validation of its options
Proceeded == InCall /\ ~Rejected

-----------------------------------------------------------------------------
(* C14 *)

\* C14: a call made with a timeout arms a timer.  When the timer fires
\* while the transport has not settled, the abort signal fires and the call
\* rejects with the transport's abort error.  When the transport settles
\* first, the call settles with the transport's result (it resolves with
\* the transport's answer) and the signal never fires afterwards.
C14_TimeoutAbortsOrResolves ==
    (Proceeded /\ run.options.timeout.defined) =>
        /\ run.timer \in {"armed", "fired", "cleared"}
        /\ pc = "sent" => run.timer \in {"armed", "fired"}
        /\ run.timer = "fired" <=> run.signal = "aborted"
        /\ (pc = "settled" /\ run.timer = "fired") =>
             run.outcome = "rejected" /\ run.value = AbortError
        /\ (pc = "settled" /\ run.value # AbortError) =>
             /\ run.timer = "cleared"
             /\ run.signal = "idle"
             /\ run.value \in Responses <=> run.outcome = "resolved"
             /\ run.value \in TransportErrors <=> run.outcome = "rejected"

\* a rawRequest() whose timer fired before the transport settled was
\* rejected with the abort error
C14_Witness ==
    /\ pc = "settled"
    /\ call.api = "rawRequest"
    /\ run.options.timeout = Num(5000)
    /\ run.timer = "fired"
    /\ run.signal = "aborted"
    /\ run.outcome = "rejected"
    /\ run.value = AbortError
    /\ events[Len(events)] = "controller.abort"

-----------------------------------------------------------------------------
(* C15 *)

\* 'dev', or four digits, a hyphen and one of 01, 04, 07, 10, and no more
AcceptedVersion(v) ==
    \/ v = <<"d", "e", "v">>
    \/ /\ Len(v) = 7
       /\ \A i \in 1..4 : v[i] \in Digits
       /\ v[5] = "-"
       /\ <<v[6], v[7]>> \in {<<"0", "1">>, <<"0", "4">>, <<"0", "7">>, <<"1", "0">>}

\* C15: the constructor throws the fixed message exactly when its apiVersion
\* is not an accepted version string; request() and rawRequest() reject a
\* versionOverride that is not one, the empty string included, and go on
\* with an accepted or absent one.
C15_VersionAccepted ==
    LET version == run.options.versionOverride
    IN  /\ pc = "threw" =>
              ~AcceptedVersion(version.chars) /\ run.value = InvalidApiVersionMessage
        /\ pc = "constructed" => AcceptedVersion(version.chars)
        /\ (InCall /\ version.defined /\ ~AcceptedVersion(version.chars)) => Rejected
        /\ (InCall /\ version.defined /\ AcceptedVersion(version.chars)
              /\ ~run.options.timeout.defined) => Proceeded
        /\ (InCall /\ ~version.defined /\ ~run.options.timeout.defined) => Proceeded

\* a rawRequest() with the versionOverride '2025-100', an accepted version
\* followed by one more character, was rejected
C15_Witness ==
    /\ Rejected
    /\ call.api = "rawRequest"
    /\ run.options.versionOverride = Version(<<"2", "0", "2", "5", "-", "1", "0", "0">>)
    /\ events = <<"requestOptionsSchema.parse">>

-----------------------------------------------------------------------------
(* C16 *)

\* C16: request() and rawRequest() reject a timeout that is negative, zero
\* or greater than 60000, and go on with one that is positive and at most
\* 60000, or undefined.
C16_TimeoutRange ==
    LET timeout == run.options.timeout
    IN  /\ (InCall /\ timeout.defined /\ (timeout.num <= 0 \/ timeout.num > 60000))
              => Rejected
        /\ (InCall /\ ~run.options.versionOverride.defined
              /\ (~timeout.defined \/ (timeout.num >= 1 /\ timeout.num <= 60000)))
              => Proceeded

\* a request() with timeout 60000 went to the transport with its timer armed
C16_Witness ==
    /\ pc = "sent"
    /\ call.api = "request"
    /\ run.options.timeout = Num(60000)
    /\ run.timer = "armed"
    /\ events[Len(events)] = "fetch"

-----------------------------------------------------------------------------
(* C17 *)

\* C17: request() with options carrying 'timeoutMs' rejects when timeoutMs
\* is negative, zero or greater than 60000, and goes on when it is within
\* range or undefined.
C17_TimeoutMsRange ==
    LET timeoutMs == run.options.timeoutMs
    IN  /\ (InCall /\ call.api = "request" /\ timeoutMs.defined
              /\ (timeoutMs.num <= 0 \/ timeoutMs.num > 60000)) => Rejected
        /\ (InCall /\ call.api = "request" /\ run.options.given
              /\ ~run.options.versionOverride.defined /\ ~run.options.timeout.defined
              /\ (~timeoutMs.defined \/ (timeoutMs.num >= 1 /\ timeoutMs.num <= 60000)))
              => Proceeded

-----------------------------------------------------------------------------
(* C18 *)

\* C18: a request()/rawRequest() call whose options fail validation fails
\* without a client created, a timer armed or the transport invoked, and a
\* constructor given an invalid apiVersion throws before any client is
\* created.
C18_ValidationFirst ==
    /\ Rejected =>
         /\ Count(events, "new GraphQLClient") = 0
         /\ Count(events, "new AbortController") = 0
         /\ Count(events, "setTimeout") = 0
         /\ Count(events, "existingMiddleware") = 0
         /\ Count(events, "fetch") = 0
         /\ run.timer = "none"
         /\ run.signal = "none"
         /\ incoming = NoRequest
         /\ outgoing = Returned(NoRequest)
    /\ pc = "threw" => Count(events, "new GraphQLClient") = 0

\* a request() with a valid versionOverride and the timeout 0 was rejected
\* after its options were parsed, and nothing else had happened
C18_Witness ==
    /\ Rejected
    /\ run.options = Options(Version(Dev), Num(0), Absent)
    /\ events = <<"requestOptionsSchema.parse">>
    /\ run.timer = "none"

-----------------------------------------------------------------------------
(* C20 *)

\* C20: after a call, passed through or transformed, the request object the
\* middleware was given, its headers object and its variables tree hold what
\* they held before (with no hook chained these are the caller's request
\* and variables); the request that leaves a transformation, its headers
\* and its body are objects the middleware built, and the nulls and the
\* removal of content-type are found in those.
C20_InputsNotMutated ==
    pc = "sent" =>
        /\ heap["processedRequest"] =
             Fields(processed, "processedRequest.headers", "processedRequest.body",
                    "processedRequest.variables")
        /\ heap["processedRequest.headers"] = processed.headers
        /\ heap["processedRequest.variables"] = processed.variables
        /\ config.requestMiddleware = "none" =>
             /\ heap["processedRequest.headers"] = incoming.headers
             /\ heap["processedRequest.variables"] = call.variables
        /\ ~Transformed => heap["return"] = "processedRequest"
        /\ Transformed =>
             LET returned == heap[heap["return"]]
             IN  /\ heap["return"] \notin GivenObjects
                 /\ returned.headers \notin GivenObjects
                 /\ returned.body \notin GivenObjects
                 /\ heap[returned.headers] = outgoing.request.headers
                 /\ heap[returned.body] = OutParts
                 /\ heap[returned.variables] = processed.variables
                 /\ SameValue(heap["cleanedVariables"], FilesAsNull(processed.variables))
                 /\ FileRoutes(heap["cleanedVariables"]) = {}

\* after a transformation the given headers still hold Content-Type and the
\* given variables still hold their Blob, while the headers and the tree
\* that were built hold neither
C20_Witness ==
    /\ Transformed
    /\ config.requestMiddleware = "none"
    /\ HContentType \in DOMAIN heap["processedRequest.headers"]
    /\ HContentTypeUp \in DOMAIN heap["processedRequest.headers"]
    /\ DOMAIN heap[heap[heap["return"]].headers]
         = {HAuthorization, HApiVersion, HApiSdkVersion}
    /\ <<"a", "0">> \in Routes(processed.variables)
    /\ NodeAt(heap["processedRequest.variables"], <<"a", "0">>) = Blob("F1")
    /\ NodeAt(heap["cleanedVariables"], <<"a", "0">>) = Null

-----------------------------------------------------------------------------
(* C19 *)

\* a sequence that is the beginning of another
IsPrefix(a, b) == Len(a) <= Len(b) /\ a = SubSeq(b, 1, Len(a))

\* the binary the commands are built for
CommandOf(pm) == IF pm = "null" THEN "npm" ELSE pm

\* C19: the install commands are those of the detected package manager's
\* 'add' command and 'fetch:generate' is '<pm> run fetch:schema && <pm> run
\* codegen'; with no package manager detected these are the npm forms 'npm
\* install graphql-request@6.1.0 graphql@16.8.2', 'npm install --save-dev
\* @graphql-codegen/cli@^5.0.5 @graphql-codegen/client-preset@^4.8.0' and
\* 'npm run fetch:schema && npm run codegen'.
C19_CommandsOfPackageManager ==
    LET pm == setup.detect
        install ==
            IF pm = "null"
            THEN <<"npm install graphql-request@6.1.0 graphql@16.8.2",
                   "npm install --save-dev @graphql-codegen/cli@^5.0.5 @graphql-codegen/client-preset@^4.8.0">>
            ELSE <<pm \o " add graphql-request@6.1.0 graphql@16.8.2",
                   pm \o " add -D @graphql-codegen/cli@^5.0.5 @graphql-codegen/client-preset@^4.8.0">>
        scripts == setup.packageJson.scripts
    IN  /\ (call.api \in {"installPackages", "setupGraphQL"} /\ pc \in {"done", "exited"}) =>
              /\ setup.executed # <<>>
              /\ IsPrefix(setup.executed, install)
              /\ pc = "done" => setup.executed = install
        /\ ("fetch:generate" \in DOMAIN scripts /\ (pm = "null" \/ setup.resolves)) =>
              /\ scripts["fetch:generate"] =
                   CommandOf(pm) \o " run fetch:schema && " \o CommandOf(pm) \o " run codegen"
              /\ scripts["fetch:schema"] = "bash fetch-schema.sh"
              /\ scripts["codegen"] = "graphql-codegen"
        /\ (pm = "null" /\ "fetch:generate" \in DOMAIN scripts) =>
              scripts["fetch:generate"] = "npm run fetch:schema && npm run codegen"

\* setupGraphQL ran where pnpm was detected: both packages were added with
\* pnpm and the script runs pnpm
C19_Witness ==
    /\ pc = "done"
    /\ call.api = "setupGraphQL"
    /\ setup.detect = "pnpm"
    /\ setup.executed[1] = "pnpm add graphql-request@6.1.0 graphql@16.8.2"
    /\ Len(setup.executed) = 2
    /\ "test" \in DOMAIN setup.packageJson.scripts
    /\ setup.packageJson.scripts["test"] = "jest"
    /\ setup.packageJson.scripts["fetch:generate"]
         = "pnpm run fetch:schema && pnpm run codegen"

-----------------------------------------------------------------------------
(* C21 *)

\* the request left as the middleware received it from the chained hook
Untouched == outgoing = Returned(processed)

\* the texts that are the query of a request: the caller's and the hook's
QueryStrings == Queries \cup {HookQuery}

\* the body is a multipart form with exactly the fields query, variables and
\* map followed by one binary part per File/Blob of the variables, and the
\* headers name no content-type
MultipartWith(queryTexts) ==
    LET n == Cardinality(FileRoutes(processed.variables))
    IN  /\ outgoing.request.body.type = "formdata"
        /\ Len(OutParts) = n + 3
        /\ n >= 1
        /\ OutParts[1].name = "query" /\ OutParts[1].kind = "string"
        /\ OutParts[1].value \in queryTexts
        /\ OutParts[2].name = "variables" /\ OutParts[2].kind = "string"
        /\ OutParts[2].value = JSONstringify(FilesAsNull(processed.variables))
        /\ OutParts[3].name = "map" /\ OutParts[3].kind = "string"
        /\ \A i \in 1..n :
             /\ OutParts[3 + i].kind = "file"
             /\ OutParts[3 + i].name = ToString(i - 1)
        /\ \A name \in DOMAIN outgoing.request.headers :
             ~SameIgnoringCase(name, HContentTypeLo)

\* C21: every request that leaves the middleware is the post-hook request
\* untouched, or carries a complete multipart form (a query field holding a
\* query string, variables, map, one part per file entry) and no content-type
\* header; nothing in between leaves.
C21_TwoForms ==
    pc = "sent" =>
        /\ ~outgoing.threw
        /\ Untouched \/ MultipartWith(QueryStrings)

\* the two forms, the query field holding whatever text String() makes of the
\* body's query member
TwoFormsWithAnyQueryText ==
    pc = "sent" =>
        /\ ~outgoing.threw
        /\ Untouched \/ MultipartWith(QueryStrings \cup {"undefined"})
        /\ Untouched => ~MultipartWith(QueryStrings \cup {"undefined"})

-----------------------------------------------------------------------------
(* C22 *)

\* C22: once the transport call of a request has settled, by an answer, a
\* failure or an abort, the timer armed for it is armed no more; so no timer
\* is armed while no call is in flight, and the abort signal of a call fires
\* only before the call settles.
C22_TimerClearedOnSettle ==
    /\ [](pc # "sent" => run.timer # "armed")
    /\ []((pc = "settled" /\ Proceeded /\ run.options.timeout.defined) =>
             /\ run.timer \in {"cleared", "fired"}
             /\ run.timer = "fired" => run.value = AbortError
             /\ run.timer = "cleared" => run.signal = "idle")
    /\ [][pc # "sent" => (run'.signal = "aborted" => run.signal = "aborted")]_vars

\* a call with a timeout whose transport failed before the timer fired: the
\* timer was cleared and the signal never fired
C22_Witness ==
    /\ pc = "settled"
    /\ run.options.timeout = Num(1)
    /\ run.outcome = "rejected"
    /\ run.value \in TransportErrors
    /\ run.timer = "cleared"
    /\ run.signal = "idle"

-----------------------------------------------------------------------------
(* C23 *)

\* C23: the transport is given an abort signal exactly when the options of
\* the request carry a timeout; without one no controller and no timer are
\* made, and the call is never aborted by the client.
C23_SignalIffTimeout ==
    Proceeded =>
        /\ run.signal # "none" <=> run.options.timeout.defined
        /\ run.timer # "none" <=> run.options.timeout.defined
        /\ Count(events, "new AbortController") =
             (IF run.options.timeout.defined THEN 1 ELSE 0)
        /\ Count(events, "setTimeout") = Count(events, "new AbortController")
        /\ ~run.options.timeout.defined =>
             /\ Count(events, "controller.abort") = 0
             /\ pc = "settled" => run.value \in Responses \cup TransportErrors

\* a request() made with a version override and no timeout was answered by
\* the transport, without a signal
C23_Witness ==
    /\ pc = "settled"
    /\ call.api = "request"
    /\ run.options.given
    /\ run.options.versionOverride = Version(Dev)
    /\ ~run.options.timeout.defined
    /\ run.signal = "none"
    /\ run.timer = "none"
    /\ run.outcome = "resolved"

-----------------------------------------------------------------------------
(* C24 *)

\* the calls in flight or just settled, and those that passed validation
Flying == {i \in DOMAIN flights : flights[i].state # "none"}
Passed == {i \in Flying : ~(flights[i].outcome = "rejected" /\ flights[i].value = "ZodError")}

\* C24: of the calls in flight together on one client, each has its own
\* controller, timer, cleaned variables and multipart body; the callback of
\* a timer aborts the call it was armed for and no other, a call that
\* settles clears its own timer and no other, and each call ends as it
\* would have ended alone: by its own timer or by the answer to it.
C24_FlightsIndependent ==
    /\ [](\A i \in Passed :
            LET f == flights[i]
            IN  /\ f.signal = "aborted" <=> f.timer = "fired"
                /\ f.timer # "none" <=> f.options.timeout.defined
                /\ f.state = "sent" => f.timer \in {"none", "armed", "fired"}
                /\ f.request = RequestOf(config, "query { me { id } }",
                                         f.variables, f.options)
                /\ hasFiles(f.variables) =>
                     /\ f.request.body.type = "formdata"
                     /\ FormGet(f.request.body.parts, "0") = f.variables.c[1].node.v
                     /\ FormGet(f.request.body.parts, "variables") = "{\"a\":null}"
                /\ f.state = "settled" =>
                     /\ f.timer \in {"none", "cleared", "fired"}
                     /\ f.timer = "fired" =>
                          f.outcome = "rejected" /\ f.value = AbortError
                     /\ f.timer # "fired" =>
                          /\ f.value = f.answer
                          /\ f.outcome = "resolved" <=> f.answer \in Responses)
    /\ [][\A i \in DOMAIN flights :
            \/ flights'[i] = flights[i]
            \/ \A j \in DOMAIN flights \ {i} : flights'[j] = flights[j]]_vars

\* two calls in flight together, each with a timer and a Blob of its own: the
\* timer of the first fired and aborted it, the second was answered and its
\* timer cleared
C24_Witness ==
    /\ flights # NoFlights
    /\ \E i, j \in DOMAIN flights :
         /\ i # j
         /\ flights[i].state = "settled" /\ flights[i].value = AbortError
         /\ flights[i].timer = "fired"
         /\ flights[i].variables = Obj(<<Entry("a", Blob("F1"))>>)
         /\ flights[j].state = "settled" /\ flights[j].value = "data A"
         /\ flights[j].timer = "cleared" /\ flights[j].signal = "idle"
         /\ flights[j].variables = Obj(<<Entry("a", Blob("F2"))>>)
         /\ FormGet(flights[j].request.body.parts, "0") = "F2"
         /\ FormGet(flights[i].request.body.parts, "0") = "F1"

-----------------------------------------------------------------------------
(* C25 *)

\* the version a call asks for: its own versionOverride, else the apiVersion
\* passed to the constructor, else DEFAULT_VERSION
VersionAskedFor(f) ==
    IF f.options.versionOverride.defined THEN Text(f.options.versionOverride.chars)
    ELSE IF run.options.versionOverride.defined
         THEN Text(run.options.versionOverride.chars)
         ELSE Text(DEFAULT_VERSION)

-----------------------------------------------------------------------------
(* C26 *)

\* no two file entries of the extraction carry the same path
DistinctPaths ==
    \A i, j \in DOMAIN result.files :
        i # j => result.files[i].path # result.files[j].path

\* C26: the file entries of one extraction, one per File/Blob position, have
\* pairwise distinct paths, for every variables tree, those with object keys
\* that contain '.' or are decimal numbers included.
C26_DistinctPaths ==
    pc = "extracted" =>
        /\ Len(result.files) = Cardinality(FileRoutes(tree))
        /\ DistinctPaths

\* the same for the trees none of whose object keys contains a dot
DistinctPathsWithoutDottedKeys ==
    (pc = "extracted" /\ \A r \in Routes(tree) : \A i \in DOMAIN r : r[i] \notin KeysWithDot)
        => /\ Len(result.files) = Cardinality(FileRoutes(tree))
           /\ DistinctPaths

-----------------------------------------------------------------------------
(* C27 *)

\* C27: detection and extraction agree: hasFiles is true of the variables
\* exactly when extractFiles returns a file entry for them; so a transformed
\* request carries at least one binary part, and hasFiles is false of the
\* cleaned tree it carries.
C27_DetectionAgreesWithExtraction ==
    pc = "sent" =>
        /\ processed.variables # Undefined =>
             LET ex == extractFiles(processed.variables)
             IN  /\ hasFiles(processed.variables) <=> ex.files # <<>>
                 /\ ~hasFiles(ex.cleanedVariables)
        /\ Transformed =>
             /\ hasFiles(processed.variables)
             /\ Len(heap["files"]) >= 1
             /\ Len(BinaryParts(OutParts)) = Len(heap["files"])
             /\ ~hasFiles(heap["cleanedVariables"])
             /\ FormGet(OutParts, "variables") = JSONstringify(heap["cleanedVariables"])
        /\ (~Transformed /\ processed.body.type = "string"
              /\ processed.body.doc.json = "object") =>
             /\ ~hasFiles(processed.variables)
             /\ processed.variables # Undefined =>
                  extractFiles(processed.variables).files = <<>>

\* a transformed request whose only File/Blob stands in an array inside an
\* array: one binary part, and a cleaned tree with null in its place
C27_Witness ==
    /\ Transformed
    /\ processed.variables = Obj(<<Entry("a", Arr(<<Item(Arr(<<Item(Blob("F1"))>>))>>))>>)
    /\ Len(heap["files"]) = 1
    /\ heap["files"][1].path = "variables.a.0.0"
    /\ Len(BinaryParts(OutParts)) = 1
    /\ FormGet(OutParts, "variables") = "{\"a\":[[null]]}"

-----------------------------------------------------------------------------
(* C28 *)

\* C28: detection is memoized for the process: over the installPackages,
\* updatePackageJsonScripts and setupGraphQL calls of one process, calls that
\* overlap in time included, detect() is invoked at most once, also when it
\* finds no package manager.
C28_DetectOnce == Count(events, "detect") <= 1

\* what holds of the calls, overlapping or not: detect() is invoked only
\* while cachedPm is undefined, and never after a detection has resolved
DetectOnlyWhileCacheEmpty ==
    /\ [][setup.cachedPm # "undefined" /\ pc = "idle" => events' = events]_vars
    /\ [](Count(events, "detect") <= MaxFlights)
    /\ [](setup.cachedPm # "undefined" => Count(events, "detect") >= 1)

-----------------------------------------------------------------------------
(* C29 *)

\* C29: the module exposes _resetCache; after a call of it the cache is
\* empty, and the next operation that needs the package manager calls
\* detect() again and works with what detect() finds then.
C29_ResetCache ==
    /\ call.api = "_resetCache" =>
         /\ run.outcome # "threw"
         /\ setup.cachedPm = "undefined"
    /\ (/\ pc \in {"done", "exited"}
        /\ run.value = "TypeError"
        /\ call.api \in {"installPackages", "setupGraphQL"}) =>
         /\ Count(events, "detect") = 1
         /\ setup.cachedPm = setup.detect
         /\ setup.executed[1] =
              (IF setup.detect = "null"
               THEN "npm install graphql-request@6.1.0 graphql@16.8.2"
               ELSE setup.detect \o " add graphql-request@6.1.0 graphql@16.8.2")

\* what holds instead: the cache, once filled, keeps its value over every call
\* of the process, a call of _resetCache included
CacheKeptForTheProcess ==
    [][(setup.cachedPm # "undefined" /\ pc' \notin {"exited", "failed"} /\ pc # "exited"
          /\ pc # "failed")
        => setup'.cachedPm = setup.cachedPm]_vars

-----------------------------------------------------------------------------
(* C30: the copies of the extraction and the encoding are equivalent *)

\* the `map` field and the indexed parts of a form
MapField(form)     == form[3]
IndexedParts(form) == SubSeq(form, 4, Len(form))

\* two copies made the same of the same query and tree
SameEncoding(a, b) ==
    /\ a.cleanedVariables = b.cleanedVariables
    /\ a.files = b.files
    /\ MapField(a.form) = MapField(b.form)
    /\ IndexedParts(a.form) = IndexedParts(b.form)
    /\ a.form = b.form

\* C30: for every query and every variables tree, extractFiles and
\* createMultipartFormData of middleware/file-upload.ts produce the same
\* cleaned tree, the same ordered file entries, the same map and the same
\* indexed parts as the private copies of ApiClient and as the earlier
\* standalone copy.
C30_CopiesEquivalent ==
    pc = "encoded" =>
        /\ SameEncoding(result.middleware, result.client)
        /\ SameEncoding(result.middleware, result.standalone)

\* the copies have encoded a tree with two files, one of them in an array
\* below a key: two entries, two properties of the map and two indexed parts
C30_Witness ==
    /\ pc = "encoded"
    /\ Len(result.client.files) = 2
    /\ \E i \in DOMAIN result.client.files :
           result.client.files[i].path = "variables.a.0"
    /\ \E i \in DOMAIN tree.c : tree.c[i].node.k = "arr"
    /\ Len(IndexedParts(result.standalone.form)) = 2
    /\ IndexedParts(result.middleware.form)[2].name = "1"

=============================================================================
